---- MODULE Spec2Model ----
(***************************************************************************)
(* A model of the LLM council of backend/council.py: the ranking parser,   *)
(* the rank aggregator and the three-stage controller run_full_council.    *)
(*                                                                         *)
(* Texts are sequences of one-character strings, so that substring search, *)
(* splitting and the regular expressions of the parser are computed on     *)
(* characters, as the code computes them.                                  *)
(***************************************************************************)
EXTENDS Integers, Sequences, FiniteSets, TLC

VARIABLES
    \* ---- parse_ranking_from_text applied to one text (SpecParse)
    ranking_text,       \* the argument of parse_ranking_from_text
    parse_result,       \* its return value
    parse_pc,           \* "input" before the call, "done" after it
    \* ---- calculate_aggregate_rankings applied to one input (SpecAgg)
    agg_stage2,         \* the argument stage2_results
    agg_label_to_model, \* the argument label_to_model
    agg_result,         \* its return value
    agg_pc,             \* "input" before the call, "done" after it
    \* ---- one round of run_full_council (Spec)
    pc,                 \* the controller's state
    user_query,         \* the argument user_query
    conversation_id,    \* the argument conversation_id
    memory_enabled,     \* the environment flag ENABLE_MEMORY
    inflight,           \* the stage whose transport calls are in flight
    calls,              \* the calls of the current fan-out, per model
    settled,            \* the models of the stage 1 fan-out, in completion order
    chairman,           \* the chairman's call
    tool_outputs,
    stage1_results,
    label_to_model,
    stage2_results,
    aggregate_rankings,
    stage3_result,
    returned,           \* the tuple run_full_council returns
    issued,             \* the transport calls issued so far, per stage
    save_calls,         \* the calls of save_exchange so far
    metric_calls,       \* the calls of calculate_token_savings so far
    visited,            \* the controller states entered so far
    \* ---- extract_ticker_candidates applied to one text (SpecTick)
    tick_text,          \* the argument text
    tick_result,        \* its return value
    tick_pc,            \* "input" before the call, "done" after it
    \* ---- one call of run_tools_for_query (SpecTools)
    rt_pc,              \* the position in run_tools_for_query
    rt_query,           \* the argument query
    rt_limit,           \* the argument limit
    rt_tools,           \* the names of get_available_tools(), in order
    rt_results,         \* results of run_tools_for_query
    rt_pass,            \* the call of run_stock_for_tickers: "own" or "inferred"
    rt_tickers,         \* the argument tickers of run_stock_for_tickers
    rt_idx,             \* the index of the loop at rt_pc
    rt_seen,            \* seen of run_stock_for_tickers
    rt_stock_results,   \* results of run_stock_for_tickers
    rt_calls,           \* the tool runs so far: tool, input, outcome, phase
    \* ---- the two storage backends under the same calls (SpecStore)
    st_json,            \* the conversations of the JSON files
    st_db,              \* the rows of the conversations table
    st_clock,           \* the time, in ticks
    st_last,            \* the last call and what each backend returned
    \* ---- the messages of stage1_collect_responses for one input (SpecStage1)
    s1_pc,              \* "input", "built", "sent" or "raised"
    s1_query,           \* the argument user_query
    s1_context,         \* the argument context
    s1_memory,          \* what the memory system does for the conversation id
    s1_tool_outputs,    \* what run_tools_for_query returns
    s1_messages,        \* messages
    s1_sent,            \* the messages each responder was sent
    \* ---- callers updating stored conversations (SpecUpdate)
    up_backend,         \* is_using_database(): "json" or "db"
    up_store,           \* the stored conversations
    up_local,           \* per caller: its call, its position and its copy
    up_done,            \* per caller: the number of calls it has finished
    up_log              \* the steps taken so far, in order

parseVars == <<ranking_text, parse_result, parse_pc>>

aggVars == <<agg_stage2, agg_label_to_model, agg_result, agg_pc>>

ctlVars ==
    <<pc, user_query, conversation_id, memory_enabled, inflight, calls, settled,
      chairman, tool_outputs, stage1_results, label_to_model, stage2_results,
      aggregate_rankings, stage3_result, returned, issued, save_calls,
      metric_calls, visited>>

tickVars == <<tick_text, tick_result, tick_pc>>

toolVars ==
    <<rt_pc, rt_query, rt_limit, rt_tools, rt_results, rt_pass, rt_tickers,
      rt_idx, rt_seen, rt_stock_results, rt_calls>>

storeVars == <<st_json, st_db, st_clock, st_last>>

msgVars ==
    <<s1_pc, s1_query, s1_context, s1_memory, s1_tool_outputs, s1_messages,
      s1_sent>>

updVars == <<up_backend, up_store, up_local, up_done, up_log>>

vars ==
    <<parseVars, aggVars, ctlVars, tickVars, toolVars, storeVars, msgVars,
      updVars>>

-----------------------------------------------------------------------------
(* Characters and text primitives (Python str operations).                 *)

Upper == {"A", "B", "C", "D", "E", "F", "G", "H", "I", "J", "K", "L", "M",
          "N", "O", "P", "Q", "R", "S", "T", "U", "V", "W", "X", "Y", "Z"}

Digit == {"0", "1", "2", "3", "4", "5", "6", "7", "8", "9"}

Whitespace == {" ", "\t", "\n", "\r", "\f"}

Min(S) == CHOOSE x \in S : \A y \in S : x <= y

\* t[i:i+len(p)] == p
IsPrefixAt(t, p, i) ==
    /\ i >= 1
    /\ i + Len(p) - 1 <= Len(t)
    /\ \A k \in 1..Len(p) : t[i + k - 1] = p[k]

\* str.find from position i (1-based); 0 when p does not occur
Find(t, p, i) ==
    LET hits == {j \in i..Len(t) : IsPrefixAt(t, p, j)}
    IN  IF hits = {} THEN 0 ELSE Min(hits)

\* p in t
Contains(t, p) == Find(t, p, 1) # 0

\* t.split(sep): the pieces between the non-overlapping occurrences of sep,
\* found left to right
RECURSIVE SplitFrom(_, _, _)
SplitFrom(t, sep, i) ==
    LET j == Find(t, sep, i)
    IN  IF j = 0
        THEN <<SubSeq(t, i, Len(t))>>
        ELSE <<SubSeq(t, i, j - 1)>> \o SplitFrom(t, sep, j + Len(sep))

Split(t, sep) == SplitFrom(t, sep, 1)

\* the length of the longest run of characters of S starting at t[i]
RECURSIVE RunLen(_, _, _)
RunLen(t, i, S) ==
    IF i <= Len(t) /\ t[i] \in S THEN 1 + RunLen(t, i + 1, S) ELSE 0

-----------------------------------------------------------------------------
(* parse_ranking_from_text (council.py 236-267).                           *)

Marker == <<"F", "I", "N", "A", "L", " ", "R", "A", "N", "K", "I", "N", "G", ":">>

ResponseSp == <<"R", "e", "s", "p", "o", "n", "s", "e", " ">>

\* the regular expression  Response [A-Z]  matches at t[i]
MatchLabelAt(t, i) ==
    /\ IsPrefixAt(t, ResponseSp, i)
    /\ i + Len(ResponseSp) <= Len(t)
    /\ t[i + Len(ResponseSp)] \in Upper

LabelLen == Len(ResponseSp) + 1

\* re.findall(r'Response [A-Z]', t): the non-overlapping matches, left to right
RECURSIVE FindallLabelFrom(_, _)
FindallLabelFrom(t, i) ==
    IF i > Len(t) THEN <<>>
    ELSE IF MatchLabelAt(t, i)
         THEN <<SubSeq(t, i, i + LabelLen - 1)>> \o FindallLabelFrom(t, i + LabelLen)
         ELSE FindallLabelFrom(t, i + 1)

FindallLabel(t) == FindallLabelFrom(t, 1)

\* the regular expression  \d+\.\s*Response [A-Z]  matched at t[i]: the index
\* after the match, 0 when it does not match.  \d+ and \s* are greedy and what
\* follows each cannot begin with a character of its class, so no backtracking.
NumberedEnd(t, i) ==
    LET d == RunLen(t, i, Digit)
        dot == i + d
        w == RunLen(t, dot + 1, Whitespace)
        lab == dot + 1 + w
    IN  IF /\ d >= 1
           /\ dot <= Len(t)
           /\ t[dot] = "."
           /\ MatchLabelAt(t, lab)
        THEN lab + LabelLen
        ELSE 0

\* re.findall(r'\d+\.\s*Response [A-Z]', t)
RECURSIVE FindallNumberedFrom(_, _)
FindallNumberedFrom(t, i) ==
    IF i > Len(t) THEN <<>>
    ELSE LET e == NumberedEnd(t, i)
         IN  IF e # 0
             THEN <<SubSeq(t, i, e - 1)>> \o FindallNumberedFrom(t, e)
             ELSE FindallNumberedFrom(t, i + 1)

FindallNumbered(t) == FindallNumberedFrom(t, 1)

\* re.search(r'Response [A-Z]', m).group()
SearchLabel(m) == FindallLabel(m)[1]

\* ranking_section = parts[1] of ranking_text.split("FINAL RANKING:")
RankingSection(parts) == parts[2]

parse_ranking_from_text(t) ==
    IF Contains(t, Marker)
    THEN LET parts == Split(t, Marker)
         IN  IF Len(parts) >= 2
             THEN LET ranking_section == RankingSection(parts)
                      numbered_matches == FindallNumbered(ranking_section)
                  IN  IF numbered_matches # <<>>
                      THEN [k \in 1..Len(numbered_matches) |->
                                SearchLabel(numbered_matches[k])]
                      ELSE FindallLabel(ranking_section)
             ELSE FindallLabel(t)
    ELSE FindallLabel(t)

-----------------------------------------------------------------------------
(* Configuration (config.py) and the label map of stage 2.                 *)

COUNCIL_MODELS ==
    <<"google/gemma-2-9b-it", "mistralai/mistral-7b-instruct",
      "qwen/qwen2.5-7b-instruct", "meta-llama/llama-3.2-3b-instruct">>

CHAIRMAN_MODEL == "google/gemma-2-9b-it"

\* the characters with code points 65 to 91
AsciiFrom65 ==
    <<"A", "B", "C", "D", "E", "F", "G", "H", "I", "J", "K", "L", "M",
      "N", "O", "P", "Q", "R", "S", "T", "U", "V", "W", "X", "Y", "Z",
      "[">>

OrdA == 65

Chr(n) == AsciiFrom65[n - OrdA + 1]

\* (mutant) the labels start one letter late
LabelLetterOffByOne(i) == Chr(OrdA + i)

\* labels = [chr(65 + i) for i in range(len(stage1_results))]; labels[i] here
\* is the label of the i-th entry, counted from 1
LabelLetter(i) == Chr(OrdA + (i - 1))

\* f"Response {label}"
LabelKey(i) == ResponseSp \o <<LabelLetter(i)>>

\* label_to_model = {f"Response {label}": result['model'] for label, result in
\* zip(labels, stage1_results)}; a later pair with the same key replaces an
\* earlier one
BuildLabelMap(stage1) ==
    [l \in {LabelKey(i) : i \in 1..Len(stage1)} |->
        LET last == CHOOSE i \in 1..Len(stage1) :
                        /\ LabelKey(i) = l
                        /\ \A j \in 1..Len(stage1) : LabelKey(j) = l => j <= i
        IN  stage1[last].model]

-----------------------------------------------------------------------------
(* calculate_aggregate_rankings (council.py 447-491).                      *)
(* model_positions is a dict in insertion order: a sequence of records     *)
(* [model, positions].  average_rank is kept in hundredths (150 is 1.5).   *)

\* model_positions[model_name].append(position)
AppendPosition(mp, model, position) ==
    IF \E k \in 1..Len(mp) : mp[k].model = model
    THEN [k \in 1..Len(mp) |->
            IF mp[k].model = model
            THEN [mp[k] EXCEPT !.positions = Append(@, position)]
            ELSE mp[k]]
    ELSE Append(mp, [model |-> model, positions |-> <<position>>])

\* (mutant) enumerate(parsed_ranking) without start=1
EnumPositionFromZero(k) == k - 1

\* enumerate(parsed_ranking, start=1): the position of the k-th label
EnumPosition(k) == k

\* for position, label in enumerate(parsed_ranking, start=1): ...
RECURSIVE RecordRanking(_, _, _, _)
RecordRanking(mp, parsed_ranking, l2m, k) ==
    IF k > Len(parsed_ranking) THEN mp
    ELSE RecordRanking(
            IF parsed_ranking[k] \in DOMAIN l2m
            THEN AppendPosition(mp, l2m[parsed_ranking[k]],
                                EnumPosition(k))
            ELSE mp,
            parsed_ranking, l2m, k + 1)

\* for ranking in stage2_results: parse ranking['ranking'] and record it
RECURSIVE RecordAll(_, _, _, _)
RecordAll(mp, stage2, l2m, i) ==
    IF i > Len(stage2) THEN mp
    ELSE RecordAll(
            RecordRanking(mp, parse_ranking_from_text(stage2[i].ranking),
                          l2m, 1),
            stage2, l2m, i + 1)

RECURSIVE SumSeq(_)
SumSeq(q) == IF q = <<>> THEN 0 ELSE Head(q) + SumSeq(Tail(q))

\* round(total / n, 2), in hundredths.  A quotient half-way between two
\* hundredths has the reduced denominator 8, 40 or 200; for n < 40 it is 8, the
\* quotient is an exact binary fraction and round() rounds it half to even.
Round2(total, n) ==
    LET q == (100 * total) \div n
        r == (100 * total) % n
    IN  IF 2 * r < n THEN q
        ELSE IF 2 * r > n THEN q + 1
        ELSE IF q % 2 = 0 THEN q ELSE q + 1

\* the loop over model_positions.items() that builds aggregate
RECURSIVE AggregateEntries(_)
AggregateEntries(mp) ==
    IF mp = <<>> THEN <<>>
    ELSE LET e == Head(mp)
         IN  (IF e.positions # <<>>
              THEN <<[model |-> e.model,
                      average_rank |-> Round2(SumSeq(e.positions), Len(e.positions)),
                      rankings_count |-> Len(e.positions)]>>
              ELSE <<>>) \o AggregateEntries(Tail(mp))

\* (mutant) a sort that puts an entry before the entries of equal key
InsertBeforeEqual(sorted, e) ==
    LET p == Cardinality({k \in 1..Len(sorted) :
                            sorted[k].average_rank < e.average_rank})
    IN  SubSeq(sorted, 1, p) \o <<e>> \o SubSeq(sorted, p + 1, Len(sorted))

\* list.sort(key=average_rank) is stable: an entry goes after the entries
\* already placed whose key is not greater
InsertByRank(sorted, e) ==
    LET p == Cardinality({k \in 1..Len(sorted) :
                            sorted[k].average_rank <= e.average_rank})
    IN  SubSeq(sorted, 1, p) \o <<e>> \o SubSeq(sorted, p + 1, Len(sorted))

RECURSIVE SortByRankFrom(_, _)
SortByRankFrom(sorted, rest) ==
    IF rest = <<>> THEN sorted
    ELSE SortByRankFrom(InsertByRank(sorted, Head(rest)), Tail(rest))

SortByRank(aggregate) == SortByRankFrom(<<>>, aggregate)

calculate_aggregate_rankings(stage2, l2m) ==
    SortByRank(AggregateEntries(RecordAll(<<>>, stage2, l2m, 1)))

-----------------------------------------------------------------------------
(* The aggregator applied to bounded inputs.                               *)

MaxRankers == 2
MaxRankLen == 2

AnswerText == <<"a", "n", "s">>

\* a Stage1Set: the answers of the given responders
Stage1Of(models) ==
    [i \in 1..Len(models) |-> [model |-> models[i], response |-> AnswerText]]

AggLetters == {"A", "B"}

LabelA == ResponseSp \o <<"A">>
LabelB == ResponseSp \o <<"B">>
LabelC == ResponseSp \o <<"C">>

AggLabels == {ResponseSp \o <<c>> : c \in AggLetters}

\* the parsed rankings drawn: every sequence of up to MaxRankLen labels, and the
\* two full rankings A,B,C and B,A,C
AggLabelSeqs ==
    UNION {[1..n -> AggLabels] : n \in 0..MaxRankLen}
        \cup {<<LabelA, LabelB, LabelC>>, <<LabelB, LabelA, LabelC>>}

DigitChar(k) == <<"0", "1", "2", "3", "4", "5", "6", "7", "8", "9">>[k + 1]

\* a ranking answer in the format the ranking prompt asks for
RECURSIVE RenderFrom(_, _)
RenderFrom(ls, k) ==
    IF k > Len(ls) THEN <<>>
    ELSE <<"\n", DigitChar(k), ".", " ">> \o ls[k] \o RenderFrom(ls, k + 1)

Render(ls) == Marker \o RenderFrom(ls, 1)

\* (mutant) the parsed ranking is not stored
RankingAnswerUnparsed(model, text) ==
    [model |-> model, ranking |-> text, parsed_ranking |-> <<>>]

\* the RankingAnswer stage 2 builds from a responder's text
RankingAnswer(model, text) ==
    [model |-> model, ranking |-> text,
     parsed_ranking |-> parse_ranking_from_text(text)]

\* the i-th ranking answer comes from the i-th configured responder
AggStage2Inputs ==
    {[i \in 1..Len(ls) |-> RankingAnswer(COUNCIL_MODELS[i], Render(ls[i]))] :
        ls \in UNION {[1..n -> AggLabelSeqs] : n \in 0..MaxRankers}}

\* the label maps of three Stage1Sets: three answers (A, B and C mapped), one
\* answer (only A mapped) and none
AggLabelMaps ==
    {BuildLabelMap(Stage1Of(SubSeq(COUNCIL_MODELS, 1, 3))),
     BuildLabelMap(Stage1Of(<<COUNCIL_MODELS[3]>>)),
     BuildLabelMap(Stage1Of(<<>>))}

AggIdle ==
    /\ agg_stage2 = <<>>
    /\ agg_label_to_model = BuildLabelMap(<<>>)
    /\ agg_result = <<>>
    /\ agg_pc = "idle"

-----------------------------------------------------------------------------
(* The parser applied to texts assembled from fragments.                   *)

MaxFrags == 4

FragRankC == <<"\n", "1", ".", " ", "R", "e", "s", "p", "o", "n", "s", "e", " ", "C">>
FragRankA == <<"\n", "2", ".", " ", "R", "e", "s", "p", "o", "n", "s", "e", " ", "A">>
FragLiked == <<"I", " ", "l", "i", "k", "e", "d", " ", "R", "e", "s", "p", "o", "n", "s", "e", " ", "B">>
FragMore == <<" ", "m", "o", "r", "e", " ", "t", "h", "a", "n", " ", "R", "e", "s", "p", "o", "n", "s", "e", " ", "A">>
FragNum == <<"1", "2", ".">>
FragGap == <<" ", "\t">>

Fragments == {Marker, FragRankC, FragRankA, FragLiked, FragMore, FragNum,
              FragGap, ResponseSp}

RECURSIVE Concat(_)
Concat(fs) == IF fs = <<>> THEN <<>> ELSE Head(fs) \o Concat(Tail(fs))

ParseInputs ==
    {Concat(fs) : fs \in UNION {[1..n -> Fragments] : n \in 0..MaxFrags}}

-----------------------------------------------------------------------------
(* Tool triggers (council.py 270-301).                                     *)

UpperSeq ==
    <<"A", "B", "C", "D", "E", "F", "G", "H", "I", "J", "K", "L", "M",
      "N", "O", "P", "Q", "R", "S", "T", "U", "V", "W", "X", "Y", "Z">>

LowerSeq ==
    <<"a", "b", "c", "d", "e", "f", "g", "h", "i", "j", "k", "l", "m",
      "n", "o", "p", "q", "r", "s", "t", "u", "v", "w", "x", "y", "z">>

\* str.lower()
ToLower(t) ==
    [i \in 1..Len(t) |->
        IF t[i] \in Upper
        THEN LowerSeq[CHOOSE k \in 1..Len(UpperSeq) : UpperSeq[k] = t[i]]
        ELSE t[i]]

FinanceSignals ==
    {<<"p", "r", "i", "c", "e">>,
     <<"s", "t", "o", "c", "k">>,
     <<"s", "t", "o", "c", "k", "s">>,
     <<"s", "h", "a", "r", "e", "s">>,
     <<"t", "i", "c", "k", "e", "r">>,
     <<"m", "a", "r", "k", "e", "t", " ", "c", "a", "p">>,
     <<"q", "u", "o", "t", "e">>}

CalcSignals ==
    {<<"c", "a", "l", "c", "u", "l", "a", "t", "e">>,
     <<"c", "o", "m", "p", "u", "t", "e">>,
     <<"m", "a", "t", "h">>,
     <<"s", "u", "m">>,
     <<"m", "u", "l", "t", "i", "p", "l", "y">>,
     <<"d", "i", "v", "i", "d", "e">>,
     <<"a", "d", "d">>,
     <<"s", "u", "b", "t", "r", "a", "c", "t">>}

SearchSignals ==
    {<<"s", "e", "a", "r", "c", "h">>,
     <<"l", "a", "t", "e", "s", "t">>,
     <<"n", "e", "w", "s">>,
     <<"c", "u", "r", "r", "e", "n", "t">>,
     <<"r", "e", "c", "e", "n", "t">>}

ResearchSignals ==
    {<<"w", "i", "k", "i", "p", "e", "d", "i", "a">>,
     <<"w", "i", "k", "i">>,
     <<"r", "e", "s", "e", "a", "r", "c", "h">>,
     <<"p", "a", "p", "e", "r">>,
     <<"a", "r", "x", "i", "v">>,
     <<"d", "e", "f", "i", "n", "i", "t", "i", "o", "n">>,
     <<"h", "i", "s", "t", "o", "r", "y">>}

\* any(sig in q for sig in signals), q the lower-cased query
HasSignal(query, signals) == \E sig \in signals : Contains(ToLower(query), sig)

_has_finance_signal(query) == HasSignal(query, FinanceSignals)
_has_calc_signal(query) == HasSignal(query, CalcSignals)
_has_search_signal(query) == HasSignal(query, SearchSignals)
_has_research_signal(query) == HasSignal(query, ResearchSignals)

requires_tools(query) ==
    \/ _has_finance_signal(query)
    \/ _has_calc_signal(query)
    \/ _has_search_signal(query)
    \/ _has_research_signal(query)

-----------------------------------------------------------------------------
(* extract_ticker_candidates (council.py 393-444).                         *)

\* str.upper()
ToUpper(t) ==
    [i \in 1..Len(t) |->
        IF \E k \in 1..Len(LowerSeq) : LowerSeq[k] = t[i]
        THEN UpperSeq[CHOOSE k \in 1..Len(LowerSeq) : LowerSeq[k] = t[i]]
        ELSE t[i]]

\* lines 401-405
stop_words ==
    {<<"T", "H", "E">>,
     <<"A", "N", "D">>,
     <<"F", "O", "R">>,
     <<"W", "I", "T", "H">>,
     <<"T", "O", "D", "A", "Y">>,
     <<"P", "R", "I", "C", "E">>,
     <<"S", "T", "O", "C", "K">>,
     <<"S", "T", "O", "C", "K", "S">>,
     <<"H", "O", "W">>,
     <<"W", "H", "A", "T">>,
     <<"I", "S">>,
     <<"A", "R", "E">>,
     <<"O", "F">>,
     <<"I", "N">>,
     <<"O", "N">>,
     <<"T", "O">>,
     <<"B", "Y">>,
     <<"V", "S">>,
     <<"V", "E", "R", "S", "U", "S">>,
     <<"G", "O", "O", "D">>,
     <<"B", "E", "T", "T", "E", "R">>,
     <<"B", "A", "D">>,
     <<"S", "H", "A", "R", "E">>,
     <<"S", "H", "A", "R", "E", "S">>,
     <<"M", "A", "R", "K", "E", "T">>,
     <<"Q", "U", "E", "S", "T", "I", "O", "N">>,
     <<"A", "B", "O", "U", "T">>}
\* lines 407-422: the items of name_map
name_map_items ==
    {<<<<"A", "P", "P", "L", "E">>, <<"A", "A", "P", "L">>>>,
     <<<<"T", "E", "S", "L", "A">>, <<"T", "S", "L", "A">>>>,
     <<<<"G", "O", "O", "G", "L", "E">>, <<"G", "O", "O", "G", "L">>>>,
     <<<<"A", "L", "P", "H", "A", "B", "E", "T">>, <<"G", "O", "O", "G", "L">>>>,
     <<<<"M", "I", "C", "R", "O", "S", "O", "F", "T">>, <<"M", "S", "F", "T">>>>,
     <<<<"A", "M", "A", "Z", "O", "N">>, <<"A", "M", "Z", "N">>>>,
     <<<<"M", "E", "T", "A">>, <<"M", "E", "T", "A">>>>,
     <<<<"F", "A", "C", "E", "B", "O", "O", "K">>, <<"M", "E", "T", "A">>>>,
     <<<<"N", "V", "I", "D", "I", "A">>, <<"N", "V", "D", "A">>>>,
     <<<<"N", "E", "T", "F", "L", "I", "X">>, <<"N", "F", "L", "X">>>>,
     <<<<"A", "M", "D">>, <<"A", "M", "D">>>>,
     <<<<"I", "B", "M">>, <<"I", "B", "M">>>>,
     <<<<"S", "H", "O", "P", "I", "F", "Y">>, <<"S", "H", "O", "P">>>>,
     <<<<"S", "N", "O", "W">>, <<"S", "N", "O", "W">>>>}

\* name_map.get(tok): the mapped identifier, or None (the empty text)
NameMapGet(tok) ==
    IF \E it \in name_map_items : it[1] = tok
    THEN (CHOOSE it \in name_map_items : it[1] = tok)[2]
    ELSE <<>>

\* \w of the regular expression: letters, digits and the underscore
IsWordChar(t, i) ==
    /\ i \in 1..Len(t)
    /\ t[i] \in Upper \cup {LowerSeq[k] : k \in 1..Len(LowerSeq)} \cup Digit \cup {"_"}

\* \b of the regular expression, before the character at i
WordBoundary(t, i) == IsWordChar(t, i - 1) # IsWordChar(t, i)

MaxTokenLen == 10

\* the length of the match of \b[A-Z]{1,10}\b at i, 0 if there is none: the
\* longest run of 1 to 10 capitals from i that ends at a word boundary
MatchTokenAt(t, i) ==
    LET ends == {k \in 1..MaxTokenLen :
                    /\ i + k - 1 <= Len(t)
                    /\ \A j \in i..(i + k - 1) : t[j] \in Upper
                    /\ WordBoundary(t, i + k)}
    IN  IF WordBoundary(t, i) /\ ends # {}
        THEN CHOOSE k \in ends : \A k2 \in ends : k2 <= k
        ELSE 0

\* re.findall(r"\b[A-Z]{1,10}\b", t)
RECURSIVE FindallTokensFrom(_, _)
FindallTokensFrom(t, i) ==
    IF i > Len(t) THEN <<>>
    ELSE LET k == MatchTokenAt(t, i)
         IN  IF k > 0
             THEN <<SubSeq(t, i, i + k - 1)>> \o FindallTokensFrom(t, i + k)
             ELSE FindallTokensFrom(t, i + 1)

FindallTokens(t) == FindallTokensFrom(t, 1)

\* (mutant) nothing is ever taken as seen
NotSeenAlways(x, seen) == TRUE

\* x not in seen
NotSeen(x, seen) == x \notin seen

MaxTickerLen == 5

\* the loop of lines 428-442 from the k-th token on
RECURSIVE ExtractFrom(_, _, _, _)
ExtractFrom(tokens, k, seen, candidates) ==
    IF k > Len(tokens) THEN candidates
    ELSE LET tok == tokens[k]
             mapped == NameMapGet(tok)
         IN  IF mapped # <<>>
             THEN IF NotSeen(mapped, seen)
                  THEN ExtractFrom(tokens, k + 1, seen \cup {mapped},
                                   Append(candidates, mapped))
                  ELSE ExtractFrom(tokens, k + 1, seen, candidates)
             ELSE IF tok \in stop_words
             THEN ExtractFrom(tokens, k + 1, seen, candidates)
             ELSE IF 1 <= Len(tok) /\ Len(tok) <= MaxTickerLen /\ NotSeen(tok, seen)
             THEN ExtractFrom(tokens, k + 1, seen \cup {tok},
                              Append(candidates, tok))
             ELSE ExtractFrom(tokens, k + 1, seen, candidates)

extract_ticker_candidates(text) ==
    IF text = <<>> THEN <<>>
    ELSE ExtractFrom(FindallTokens(ToUpper(text)), 1, {}, <<>>)

\* ---- the extractor applied to texts assembled from fragments

MaxTickFrags == 3

TickExample == <<"H", "o", "w", " ", "i", "s", " ", "A", "P", "P", "L", "E", " ", "d", "o", "i", "n", "g", " ", "v", "s", " ", "T", "E", "S", "L", "A", " ", "t", "o", "d", "a", "y">>

TickFragments ==
    {<<" ">>,
     <<"G", "O", "O", "G", "L", "E">>,
     <<"A", "l", "p", "h", "a", "b", "e", "t">>,
     <<"a", "a", "p", "l">>,
     <<"A", "p", "p", "l", "e">>,
     <<"i", "s">>,
     <<"d", "o", "i", "n", "g">>,
     <<"a", "1">>,
     <<"_">>,
     <<"A", "B", "C", "D", "E", "F", "G", "H", "I", "J", "K">>,
     <<"p", "u", "r", "p", "l", "e">>}

TickInputs ==
    {Concat(fs) : fs \in UNION {[1..n -> TickFragments] : n \in 0..MaxTickFrags}}
        \cup {TickExample}

TickIdle ==
    /\ tick_text = <<>>
    /\ tick_result = <<>>
    /\ tick_pc = "idle"

-----------------------------------------------------------------------------
(* run_tools_for_query and run_stock_for_tickers (council.py 304-390),     *)
(* get_available_tools (tools.py 156-179).  A tool is known by its name;   *)
(* a run of a tool raises or returns an output.                            *)

BaseTools == <<"calculator", "wikipedia", "arxiv", "web_search", "stock_data">>

\* duckduckgo_tool() returned None and was dropped
BaseToolsNoWeb == <<"calculator", "wikipedia", "arxiv", "stock_data">>

\* the lists get_available_tools() can return: with or without web_search,
\* with or without tavily_search appended
ToolLists ==
    {BaseTools, BaseToolsNoWeb,
     Append(BaseTools, "tavily_search"), Append(BaseToolsNoWeb, "tavily_search")}

\* next((t for t in tools if t.name == name), None) is not None
FindTool(tools, name) == \E i \in 1..Len(tools) : tools[i] = name

\* ---- the outcomes of tool.run(input): text is str(output)

Raises == [kind |-> "raise", text |-> <<>>]
StrOut(t) == [kind |-> "str", text |-> t]
ObjOut(t) == [kind |-> "obj", text |-> t]

\* if output: a str is true when not empty; the objects drawn are not empty
Truthy(out) == out.kind = "obj" \/ out.text # <<>>

MaxResultChars == 500

Ellipsis == <<".", ".", ".">>

\* a text of MaxResultChars + 1 characters without a letter
LongText == [i \in 1..(MaxResultChars + 1) |-> "7"]

QuoteNA == <<":", " ", "N", "/", "A">>
QuoteDollar == <<":", " ", "$", "1">>
QuotePriceField == <<"P", "r", "i", "c", "e", "=", "1">>
WebFound == <<"A", "A", "P", "L", ",", " ", "T", "S", "L", "A">>
WebNothing == <<"1", "2", "%">>
ShortText == <<"o", "k">>

\* stock_tool.run(ticker)
StockOutcomes(ticker) ==
    {Raises, StrOut(<<>>), StrOut(ticker \o QuoteNA),
     StrOut(ticker \o QuoteDollar), StrOut(QuotePriceField)}

\* web_tool.run(query)
WebOutcomes == {Raises, StrOut(<<>>), StrOut(WebFound), StrOut(WebNothing)}

\* tool.run(query) of the other tools; search.invoke of tavily_search returns
\* a list
ToolOutcomes(tool) ==
    IF tool = "web_search" THEN WebOutcomes \cup {StrOut(LongText)}
    ELSE {Raises, StrOut(<<>>), StrOut(ShortText), StrOut(LongText)}
            \cup (IF tool = "tavily_search" THEN {ObjOut(LongText)} ELSE {})

\* (mutant) the limit is never reached
LimitReachedNever(results, limit) == FALSE

\* len(results) >= limit
LimitReached(results, limit) == Len(results) >= limit

PriceField == <<"p", "r", "i", "c", "e", "=">>

\* (mutant) every output is taken as a quote
ValidQuoteAlways(output_str) == TRUE

\* line 385: "$" in output_str or "price=" in output_str.lower()
ValidQuote(output_str) ==
    \/ Contains(output_str, <<"$">>)
    \/ Contains(ToLower(output_str), PriceField)

\* lines 358-360: the result text of a sweep entry
SweepResultText(out) ==
    IF out.kind = "str" /\ Len(out.text) > MaxResultChars
    THEN SubSeq(out.text, 1, MaxResultChars) \o Ellipsis
    ELSE out.text

\* lines 337-341: the tools the sweep passes over before looking at the limit
SweepSkips(tool, tools) ==
    \/ tool = "stock_data"
    \/ (tool = "web_search" /\ FindTool(tools, "web_search"))

\* lines 345-353: the tool matches the intent of the query
MatchesIntent(tool, query) ==
    /\ tool = "calculator" => _has_calc_signal(query)
    /\ tool \in {"wikipedia", "arxiv"} => _has_research_signal(query)
    /\ tool = "web_search" => _has_search_signal(query)

\* (mutant) a raising run is not caught
RunUnguarded == FALSE

\* the runs of lines 326, 355 and 380 are inside try/except Exception
RunGuarded == TRUE

\* line 324: if not results and stock_tool and web_tool
FallbackApplies(results, tools) ==
    /\ results = <<>>
    /\ FindTool(tools, "stock_data")
    /\ FindTool(tools, "web_search")

ToolRun(tool, input, out, phase) ==
    [tool |-> tool, input |-> input, out |-> out, phase |-> phase]

\* ---- the inputs

MaxLimit == 3

ToolQueries ==
    {<<"A", "A", "P", "L", " ", "p", "r", "i", "c", "e">>,
     <<"T", "S", "L", "A", " ", "A", "A", "P", "L", " ", "s", "t", "o", "c", "k">>,
     <<"p", "r", "i", "c", "e">>,
     <<"n", "e", "w", "s">>,
     <<"a", "d", "d", " ", "w", "i", "k", "i", " ", "n", "e", "w", "s">>,
     <<"p", "r", "i", "c", "e", " ", "s", "u", "m">>}

ToolsIdle ==
    /\ rt_pc = "idle"
    /\ rt_query = <<>>
    /\ rt_limit = 0
    /\ rt_tools = <<>>
    /\ rt_results = <<>>
    /\ rt_pass = "none"
    /\ rt_tickers = <<>>
    /\ rt_idx = 0
    /\ rt_seen = {}
    /\ rt_stock_results = <<>>
    /\ rt_calls = <<>>

\* run_stock_for_tickers is entered with the given tickers
EnterStock(tickers, pass) ==
    /\ rt_pc' = "stock"
    /\ rt_pass' = pass
    /\ rt_tickers' = tickers
    /\ rt_idx' = 1
    /\ rt_seen' = {}
    /\ rt_stock_results' = <<>>

\* the sweep of the tools is entered
EnterSweep ==
    /\ rt_pc' = "sweep"
    /\ rt_idx' = 1
    /\ UNCHANGED <<msgVars, updVars, rt_pass, rt_tickers, rt_seen, rt_stock_results>>

\* lines 309-318: the tools are fetched and the query is classified
RunToolsBegin ==
    /\ rt_pc = "input"
    /\ LET tickers == extract_ticker_candidates(rt_query)
       IN  IF /\ _has_finance_signal(rt_query)
              /\ tickers # <<>>
              /\ FindTool(rt_tools, "stock_data")
           THEN EnterStock(tickers, "own")
           ELSE IF /\ _has_finance_signal(rt_query)
                   /\ FallbackApplies(rt_results, rt_tools)
           THEN /\ rt_pc' = "fallback"
                /\ UNCHANGED <<msgVars, updVars, rt_pass, rt_tickers, rt_idx, rt_seen,
                               rt_stock_results>>
           ELSE EnterSweep
    /\ UNCHANGED <<msgVars, updVars, rt_query, rt_limit, rt_tools, rt_results, rt_calls>>
    /\ UNCHANGED <<msgVars, updVars, parseVars, aggVars, tickVars, ctlVars, storeVars>>

\* lines 373-388: one iteration of the loop of run_stock_for_tickers
StockStep ==
    /\ rt_pc = "stock"
    /\ rt_idx <= Len(rt_tickers)
    /\ ~LimitReached(rt_stock_results, rt_limit)
    /\ LET ticker == rt_tickers[rt_idx]
       IN  IF ticker \in rt_seen
           THEN /\ rt_pc' = rt_pc
                /\ UNCHANGED <<msgVars, updVars, rt_seen, rt_stock_results, rt_calls>>
           ELSE \E out \in StockOutcomes(ticker) :
                /\ rt_seen' = rt_seen \cup {ticker}
                /\ rt_calls' = Append(rt_calls,
                                      ToolRun("stock_data", ticker, out, rt_pass))
                /\ rt_pc' = IF out.kind = "raise" /\ ~RunGuarded
                            THEN "raised" ELSE rt_pc
                /\ rt_stock_results' =
                        IF out.kind # "raise" /\ Truthy(out) /\ ValidQuote(out.text)
                        THEN Append(rt_stock_results,
                                    [tool |-> "stock_data", result |-> out.text])
                        ELSE rt_stock_results
    /\ rt_idx' = rt_idx + 1
    /\ UNCHANGED <<msgVars, updVars, rt_query, rt_limit, rt_tools, rt_results, rt_pass, rt_tickers>>
    /\ UNCHANGED <<msgVars, updVars, parseVars, aggVars, tickVars, ctlVars, storeVars>>

\* lines 374-375 and 390, then 319-321 or 329-331: run_stock_for_tickers
\* returns, results is extended and returned if it is not empty
StockReturn ==
    /\ rt_pc = "stock"
    /\ rt_idx > Len(rt_tickers) \/ LimitReached(rt_stock_results, rt_limit)
    /\ rt_results' = rt_results \o rt_stock_results
    /\ rt_pc' = IF rt_results' # <<>> THEN "done"
                ELSE IF rt_pass = "own" /\ FallbackApplies(rt_results', rt_tools)
                THEN "fallback"
                ELSE "sweep"
    /\ rt_idx' = IF rt_pc' = "sweep" THEN 1 ELSE rt_idx
    /\ UNCHANGED <<msgVars, updVars, rt_query, rt_limit, rt_tools, rt_pass, rt_tickers, rt_seen,
                   rt_stock_results, rt_calls>>
    /\ UNCHANGED <<msgVars, updVars, parseVars, aggVars, tickVars, ctlVars, storeVars>>

\* lines 324-333: the web search on the query and the tickers inferred from
\* its output
FallbackSearch ==
    /\ rt_pc = "fallback"
    /\ \E out \in WebOutcomes :
        /\ rt_calls' = Append(rt_calls,
                              ToolRun("web_search", rt_query, out, "fallback"))
        /\ IF out.kind = "raise"
           THEN IF RunGuarded THEN EnterSweep
                ELSE /\ rt_pc' = "raised"
                     /\ UNCHANGED <<msgVars, updVars, rt_pass, rt_tickers, rt_idx, rt_seen,
                                    rt_stock_results>>
           ELSE LET inferred_tickers == extract_ticker_candidates(out.text)
                IN  IF inferred_tickers # <<>>
                    THEN EnterStock(inferred_tickers, "inferred")
                    ELSE EnterSweep
    /\ UNCHANGED <<msgVars, updVars, rt_query, rt_limit, rt_tools, rt_results>>
    /\ UNCHANGED <<msgVars, updVars, parseVars, aggVars, tickVars, ctlVars, storeVars>>

\* lines 335-363: one iteration of the sweep
SweepStep ==
    /\ rt_pc = "sweep"
    /\ rt_idx <= Len(rt_tools)
    /\ LET tool == rt_tools[rt_idx]
       IN  IF SweepSkips(tool, rt_tools)
           THEN /\ rt_idx' = rt_idx + 1
                /\ UNCHANGED <<msgVars, updVars, rt_pc, rt_results, rt_calls>>
           ELSE IF LimitReached(rt_results, rt_limit)
           THEN /\ rt_pc' = "done"
                /\ UNCHANGED <<msgVars, updVars, rt_idx, rt_results, rt_calls>>
           ELSE IF ~MatchesIntent(tool, rt_query)
           THEN /\ rt_idx' = rt_idx + 1
                /\ UNCHANGED <<msgVars, updVars, rt_pc, rt_results, rt_calls>>
           ELSE \E out \in ToolOutcomes(tool) :
                /\ rt_calls' = Append(rt_calls,
                                      ToolRun(tool, rt_query, out, "sweep"))
                /\ rt_pc' = IF out.kind = "raise" /\ ~RunGuarded
                            THEN "raised" ELSE rt_pc
                /\ rt_results' =
                        IF out.kind # "raise" /\ Truthy(out)
                        THEN Append(rt_results,
                                    [tool |-> tool,
                                     result |-> SweepResultText(out)])
                        ELSE rt_results
                /\ rt_idx' = rt_idx + 1
    /\ UNCHANGED <<msgVars, updVars, rt_query, rt_limit, rt_tools, rt_pass, rt_tickers, rt_seen,
                   rt_stock_results>>
    /\ UNCHANGED <<msgVars, updVars, parseVars, aggVars, tickVars, ctlVars, storeVars>>

\* line 365: the sweep is over
SweepReturn ==
    /\ rt_pc = "sweep"
    /\ rt_idx > Len(rt_tools)
    /\ rt_pc' = "done"
    /\ UNCHANGED <<msgVars, updVars, rt_query, rt_limit, rt_tools, rt_results, rt_pass, rt_tickers,
                   rt_idx, rt_seen, rt_stock_results, rt_calls>>
    /\ UNCHANGED <<msgVars, updVars, parseVars, aggVars, tickVars, ctlVars, storeVars>>

NextTools ==
    \/ RunToolsBegin
    \/ StockStep
    \/ StockReturn
    \/ FallbackSearch
    \/ SweepStep
    \/ SweepReturn

-----------------------------------------------------------------------------
(* The conversation store (storage.py 31-188): the JSON files and the      *)
(* conversations table, each a set of conversations                        *)
(* [id, created_at, title, messages] with at most one per id.              *)

NewTitle == <<"N", "e", "w", " ", "C", "o", "n", "v", "e", "r", "s", "a", "t", "i", "o", "n">>

Has(store, id) == \E c \in store : c.id = id

Lookup(store, id) == CHOOSE c \in store : c.id = id

Without(store, id) == {c \in store : c.id # id}

\* what a call returned: whether it raised, its boolean or found flag, and the
\* dicts it returned
Returned(raised, found, rows) ==
    [raised |-> raised, found |-> found, rows |-> rows]

\* lines 35-40 and 106-110: the new conversation
NewConversation(id, now) ==
    [id |-> id, created_at |-> now, title |-> NewTitle, messages |-> <<>>]

\* lines 77-82 and 154-159: the metadata of a conversation
Metadata(c) ==
    [id |-> c.id, created_at |-> c.created_at, title |-> c.title,
     message_count |-> Len(c.messages)]

\* the conversations by created_at, newest first (lines 84 and 150-152)
RECURSIVE NewestFirst(_)
NewestFirst(store) ==
    IF store = {} THEN <<>>
    ELSE LET c == CHOOSE x \in store :
                    \A y \in store : y.created_at <= x.created_at
         IN  <<Metadata(c)>> \o NewestFirst(store \ {c})

\* ---- the JSON files

\* open(path, 'w') and json.dump: the file of the id is written anew
_json_create_conversation(store, id, now) ==
    [store |-> Without(store, id) \cup {NewConversation(id, now)},
     ret |-> Returned(FALSE, TRUE, <<NewConversation(id, now)>>)]

_json_get_conversation(store, id) ==
    [store |-> store,
     ret |-> IF Has(store, id)
             THEN Returned(FALSE, TRUE, <<Lookup(store, id)>>)
             ELSE Returned(FALSE, FALSE, <<>>)]

\* the file of conversation['id'] is written whether or not it exists
_json_save_conversation(store, conversation) ==
    [store |-> Without(store, conversation.id) \cup {conversation},
     ret |-> Returned(FALSE, TRUE, <<>>)]

_json_list_conversations(store) ==
    [store |-> store, ret |-> Returned(FALSE, TRUE, NewestFirst(store))]

_json_delete_conversation(store, id) ==
    [store |-> Without(store, id),
     ret |-> Returned(FALSE, Has(store, id), <<>>)]

\* ---- the conversations table; the id is the key of a row

\* db.add and db.commit: a second row of the same key is refused
_db_create_conversation(store, id, now) ==
    IF Has(store, id)
    THEN [store |-> store, ret |-> Returned(TRUE, FALSE, <<>>)]
    ELSE [store |-> store \cup {NewConversation(id, now)},
          ret |-> Returned(FALSE, TRUE, <<NewConversation(id, now)>>)]

_db_get_conversation(store, id) ==
    [store |-> store,
     ret |-> IF Has(store, id)
             THEN Returned(FALSE, TRUE, <<Lookup(store, id)>>)
             ELSE Returned(FALSE, FALSE, <<>>)]

\* lines 137-140: title and messages of the row are updated if the row exists
_db_save_conversation(store, conversation) ==
    [store |->
        IF Has(store, conversation.id)
        THEN Without(store, conversation.id) \cup
                {[Lookup(store, conversation.id) EXCEPT
                    !.title = conversation.title,
                    !.messages = conversation.messages]}
        ELSE store,
     ret |-> Returned(FALSE, TRUE, <<>>)]

_db_list_conversations(store) ==
    [store |-> store, ret |-> Returned(FALSE, TRUE, NewestFirst(store))]

_db_delete_conversation(store, id) ==
    [store |-> Without(store, id),
     ret |-> Returned(FALSE, Has(store, id), <<>>)]

\* ---- the calls, made on both backends with the same arguments

MaxClock == 3

StoreIds == {"c1", "c2"}

StoreTitles == {NewTitle, <<"T">>}

StoreMessages == {<<>>, <<[role |-> "user", content |-> <<"q">>]>>}

NoCall == [op |-> "none", json |-> Returned(FALSE, FALSE, <<>>),
           db |-> Returned(FALSE, FALSE, <<>>)]

StoreIdle ==
    /\ st_json = {}
    /\ st_db = {}
    /\ st_clock = 0
    /\ st_last = NoCall

\* both backends take the call and what they return is kept
BothBackends(op, j, d) ==
    /\ st_json' = j.store
    /\ st_db' = d.store
    /\ st_last' = [op |-> op, json |-> j.ret, db |-> d.ret]

CreateConversation(id) ==
    /\ st_clock < MaxClock
    /\ st_clock' = st_clock + 1
    /\ BothBackends("create",
                    _json_create_conversation(st_json, id, st_clock + 1),
                    _db_create_conversation(st_db, id, st_clock + 1))
    /\ UNCHANGED <<msgVars, updVars, parseVars, aggVars, tickVars, toolVars, ctlVars>>

GetConversation(id) ==
    /\ BothBackends("get", _json_get_conversation(st_json, id),
                    _db_get_conversation(st_db, id))
    /\ UNCHANGED <<msgVars, updVars, st_clock, parseVars, aggVars, tickVars, toolVars, ctlVars>>

\* the conversation saved is one that get or create returned, with another
\* title or other messages, whether or not it is still stored
SaveConversation(id, created_at, title, messages) ==
    /\ created_at \in
            {c.created_at : c \in {x \in st_json \cup st_db : x.id = id}}
    /\ LET conversation == [id |-> id, created_at |-> created_at,
                            title |-> title, messages |-> messages]
       IN  BothBackends("save", _json_save_conversation(st_json, conversation),
                        _db_save_conversation(st_db, conversation))
    /\ UNCHANGED <<msgVars, updVars, st_clock, parseVars, aggVars, tickVars, toolVars, ctlVars>>

\* the conversation saved has an id that is not stored: one that was never
\* created or was deleted
SaveUnknownConversation(id, title, messages) ==
    /\ ~Has(st_json, id)
    /\ ~Has(st_db, id)
    /\ st_clock < MaxClock
    /\ st_clock' = st_clock + 1
    /\ LET conversation == [id |-> id, created_at |-> st_clock + 1,
                            title |-> title, messages |-> messages]
       IN  BothBackends("save", _json_save_conversation(st_json, conversation),
                        _db_save_conversation(st_db, conversation))
    /\ UNCHANGED <<msgVars, updVars, parseVars, aggVars, tickVars, toolVars, ctlVars>>

ListConversations ==
    /\ BothBackends("list", _json_list_conversations(st_json),
                    _db_list_conversations(st_db))
    /\ UNCHANGED <<msgVars, updVars, st_clock, parseVars, aggVars, tickVars, toolVars, ctlVars>>

DeleteConversation(id) ==
    /\ BothBackends("delete", _json_delete_conversation(st_json, id),
                    _db_delete_conversation(st_db, id))
    /\ UNCHANGED <<msgVars, updVars, st_clock, parseVars, aggVars, tickVars, toolVars, ctlVars>>

NextStore ==
    \/ \E id \in StoreIds : CreateConversation(id)
    \/ \E id \in StoreIds : GetConversation(id)
    \/ \E id \in StoreIds, created_at \in 1..MaxClock,
          title \in StoreTitles, messages \in StoreMessages :
            SaveConversation(id, created_at, title, messages)
    \/ \E id \in StoreIds, title \in StoreTitles, messages \in StoreMessages :
            SaveUnknownConversation(id, title, messages)
    \/ ListConversations
    \/ \E id \in StoreIds : DeleteConversation(id)

-----------------------------------------------------------------------------
(* The council controller: run_full_council and the three stages           *)
(* (council.py 13-233, 532-582), the memory system (memory.py 34-77).      *)

Models == {COUNCIL_MODELS[i] : i \in 1..Len(COUNCIL_MODELS)}

EmptyDict == [k \in {} |-> 0]

\* conversation_id = None
NoConversation == <<>>

ConversationIds == {NoConversation, <<"c", "1">>}

QueryPlain == <<"W", "h", "y", "?">>
QueryNews == <<"A", "I", " ", "n", "e", "w", "s">>

Queries == {QueryPlain, QueryNews}

AllFailedMessage ==
    <<"A", "l", "l", " ", "m", "o", "d", "e", "l", "s", " ", "f", "a", "i",
      "l", "e", "d", " ", "t", "o", " ", "r", "e", "s", "p", "o", "n", "d",
      ".", " ", "P", "l", "e", "a", "s", "e", " ", "t", "r", "y", " ", "a",
      "g", "a", "i", "n", ".">>

SynthesisError ==
    <<"E", "r", "r", "o", "r", ":", " ", "U", "n", "a", "b", "l", "e", " ",
      "t", "o", " ", "g", "e", "n", "e", "r", "a", "t", "e", " ", "f", "i",
      "n", "a", "l", " ", "s", "y", "n", "t", "h", "e", "s", "i", "s", ".">>

FinalText == <<"f", "i", "n", "a", "l">>

\* the texts a responder may give as its ranking: in the format asked for, and
\* free text without the marker
RankingTexts == {Render(<<LabelB, LabelA>>), FragLiked}

\* what run_tools_for_query may return for a query that requires tools
ToolResultSample == [tool |-> "web_search", result |-> <<"r">>]

RunToolsOutcomes == {<<>>, <<ToolResultSample>>}

\* lines 63-71 of stage1_collect_responses
ToolOutputsFor(query) ==
    IF requires_tools(query) THEN RunToolsOutcomes ELSE {<<>>}

\* ---- the responder transport: a call is idle, pending, ok or fail

IdleCall == [status |-> "idle", content |-> <<>>]
PendingCall == [status |-> "pending", content |-> <<>>]
FailedCall == [status |-> "fail", content |-> <<>>]
OkCall(text) == [status |-> "ok", content |-> text]

NoCalls == [m \in Models |-> IdleCall]
AllPending == [m \in Models |-> PendingCall]

\* the outcomes of one transport call: a failure (None) or a text
Replies(stage) ==
    {FailedCall} \cup
        (IF stage = "stage1" THEN {OkCall(AnswerText)}
         ELSE IF stage = "stage2" THEN {OkCall(t) : t \in RankingTexts}
         ELSE {OkCall(FinalText)})

\* query_models_parallel has every call settled when it returns
AllSettled(c) == \A m \in Models : c[m].status \in {"ok", "fail"}

\* the dict query_models_parallel returns: one item per configured model, in
\* configured order
QueryModelsParallel(c) ==
    [i \in 1..Len(COUNCIL_MODELS) |->
        [model |-> COUNCIL_MODELS[i], response |-> c[COUNCIL_MODELS[i]]]]

\* (mutant) the await returns as soon as one call has settled
FanOutReturnedEarly(c) == \E m \in Models : c[m].status \in {"ok", "fail"}

\* responses = await query_models_parallel(COUNCIL_MODELS, messages): the
\* stage goes on when the fan-out has returned
FanOutReturned(c) == AllSettled(c)

\* (mutant) every response is kept
IsNotNoneAlways(response) == TRUE

\* response is not None
IsNotNone(response) == response.status = "ok"

\* lines 80-86: stage1_results
RECURSIVE Stage1Results(_)
Stage1Results(responses) ==
    IF responses = <<>> THEN <<>>
    ELSE (IF IsNotNone(Head(responses).response)
          THEN <<[model |-> Head(responses).model,
                  response |-> Head(responses).response.content]>>
          ELSE <<>>) \o Stage1Results(Tail(responses))

\* lines 157-166: stage2_results
RECURSIVE Stage2Results(_)
Stage2Results(responses) ==
    IF responses = <<>> THEN <<>>
    ELSE (IF IsNotNone(Head(responses).response)
          THEN <<RankingAnswer(Head(responses).model,
                               Head(responses).response.content)>>
          ELSE <<>>) \o Stage2Results(Tail(responses))

\* lines 223-233: the synthesis answer, or the fallback when the chairman fails
Stage3Result(response) ==
    IF response.status = "fail"
    THEN [model |-> CHAIRMAN_MODEL, response |-> SynthesisError]
    ELSE [model |-> CHAIRMAN_MODEL, response |-> response.content]

NoAnswer == [model |-> "", response |-> <<>>]

NoReturn ==
    [stage1 |-> <<>>, stage2 |-> <<>>, stage3 |-> NoAnswer, metadata |-> EmptyDict]

\* lines 547-550: the return value when no model responded
AbortReturn ==
    [stage1 |-> <<>>, stage2 |-> <<>>,
     stage3 |-> [model |-> "error", response |-> AllFailedMessage],
     metadata |-> EmptyDict]

\* (mutant) the check of line 546 is missing
AfterStage1Always(stage1) == "CollectingRankings"

\* line 546: if not stage1_results: return ...
AfterStage1(stage1) ==
    IF stage1 = <<>> THEN "Aborted" ELSE "CollectingRankings"

\* calculate_token_savings never raises: the counts, or zeroed counts with an
\* error note
TokenSavingsOutcomes == {[error |-> FALSE], [error |-> TRUE]}

\* lines 575-582
FullReturn(savings) ==
    [stage1 |-> stage1_results, stage2 |-> stage2_results,
     stage3 |-> stage3_result,
     metadata |-> [label_to_model |-> label_to_model,
                   aggregate_rankings |-> aggregate_rankings,
                   token_savings |-> savings,
                   tool_outputs |-> tool_outputs]]

\* CouncilMemorySystem(conversation_id): with memory disabled __init__ returns at
\* once; enabled, it builds the embeddings, the directory and the store, and any
\* of them may raise
MemoryInitOutcomes == IF memory_enabled THEN {"ok", "raise"} ELSE {"ok"}

\* save_exchange: nothing when disabled; else add_texts stores the exchange or
\* raises, and the exception is swallowed
SaveOutcomes == IF memory_enabled THEN {TRUE, FALSE} ELSE {FALSE}

Enter(state) == visited' = Append(visited, state)

InitCtl ==
    /\ pc = "CollectingAnswers"
    /\ user_query \in Queries
    /\ conversation_id \in ConversationIds
    /\ memory_enabled \in BOOLEAN
    /\ inflight = "none"
    /\ calls = NoCalls
    /\ settled = <<>>
    /\ chairman = IdleCall
    /\ tool_outputs = <<>>
    /\ stage1_results = <<>>
    /\ label_to_model = EmptyDict
    /\ stage2_results = <<>>
    /\ aggregate_rankings = <<>>
    /\ stage3_result = NoAnswer
    /\ returned = NoReturn
    /\ issued = [stage1 |-> 0, stage2 |-> 0, stage3 |-> 0]
    /\ save_calls = <<>>
    /\ metric_calls = 0
    /\ visited = <<"CollectingAnswers">>

CtlIdle ==
    /\ pc = "idle"
    /\ user_query = <<>>
    /\ conversation_id = NoConversation
    /\ memory_enabled = FALSE
    /\ inflight = "none"
    /\ calls = NoCalls
    /\ settled = <<>>
    /\ chairman = IdleCall
    /\ tool_outputs = <<>>
    /\ stage1_results = <<>>
    /\ label_to_model = EmptyDict
    /\ stage2_results = <<>>
    /\ aggregate_rankings = <<>>
    /\ stage3_result = NoAnswer
    /\ returned = NoReturn
    /\ issued = [stage1 |-> 0, stage2 |-> 0, stage3 |-> 0]
    /\ save_calls = <<>>
    /\ metric_calls = 0
    /\ visited = <<>>

\* stage1_collect_responses up to the fan-out (lines 28-77): the memory context
\* (when a conversation id is given), the tool outputs, one call per model
Stage1Begin ==
    /\ pc = "CollectingAnswers"
    /\ inflight = "none"
    /\ conversation_id # NoConversation => "ok" \in MemoryInitOutcomes
    /\ \E t \in ToolOutputsFor(user_query) : tool_outputs' = t
    /\ calls' = AllPending
    /\ settled' = <<>>
    /\ inflight' = "stage1"
    /\ issued' = [issued EXCEPT !.stage1 = @ + Len(COUNCIL_MODELS)]
    /\ UNCHANGED <<msgVars, updVars, parseVars, aggVars, tickVars, toolVars, storeVars, pc, user_query, conversation_id, memory_enabled, chairman,
                   stage1_results, label_to_model, stage2_results,
                   aggregate_rankings, stage3_result, returned, save_calls,
                   metric_calls, visited>>

\* line 58: CouncilMemorySystem(conversation_id) raises; nothing catches it
Stage1MemoryRaises ==
    /\ pc = "CollectingAnswers"
    /\ inflight = "none"
    /\ conversation_id # NoConversation
    /\ "raise" \in MemoryInitOutcomes
    /\ pc' = "Raised"
    /\ UNCHANGED <<msgVars, updVars, parseVars, aggVars, tickVars, toolVars, storeVars, user_query, conversation_id, memory_enabled, inflight, calls,
                   settled, chairman, tool_outputs, stage1_results,
                   label_to_model, stage2_results, aggregate_rankings,
                   stage3_result, returned, issued, save_calls, metric_calls,
                   visited>>

\* one call of a fan-out settles: the responder answers or fails
TransportSettle(m) ==
    /\ inflight \in {"stage1", "stage2"}
    /\ calls[m].status = "pending"
    /\ \E r \in Replies(inflight) : calls' = [calls EXCEPT ![m] = r]
    /\ settled' = IF inflight = "stage1" THEN Append(settled, m) ELSE settled
    /\ UNCHANGED <<msgVars, updVars, parseVars, aggVars, tickVars, toolVars, storeVars, pc, user_query, conversation_id, memory_enabled, inflight,
                   chairman, tool_outputs, stage1_results, label_to_model,
                   stage2_results, aggregate_rankings, stage3_result, returned,
                   issued, save_calls, metric_calls, visited>>

\* lines 77-88 and 543-553: the fan-out returns, the successes are collected,
\* and run_full_council returns the abort transcript or goes on to stage 2
Stage1Collect ==
    /\ pc = "CollectingAnswers"
    /\ inflight = "stage1"
    /\ FanOutReturned(calls)
    /\ LET results == Stage1Results(QueryModelsParallel(calls))
       IN  /\ stage1_results' = results
           /\ pc' = AfterStage1(results)
           /\ Enter(AfterStage1(results))
           /\ returned' = IF AfterStage1(results) = "Aborted"
                          THEN AbortReturn ELSE returned
    /\ inflight' = "none"
    /\ UNCHANGED <<msgVars, updVars, parseVars, aggVars, tickVars, toolVars, storeVars, user_query, conversation_id, memory_enabled, calls, settled,
                   chairman, tool_outputs, label_to_model, stage2_results,
                   aggregate_rankings, stage3_result, issued, save_calls,
                   metric_calls>>

\* stage2_collect_rankings up to the fan-out (lines 105-154)
Stage2Begin ==
    /\ pc = "CollectingRankings"
    /\ inflight = "none"
    /\ label_to_model' = BuildLabelMap(stage1_results)
    /\ calls' = AllPending
    /\ settled' = <<>>
    /\ inflight' = "stage2"
    /\ issued' = [issued EXCEPT !.stage2 = @ + Len(COUNCIL_MODELS)]
    /\ UNCHANGED <<msgVars, updVars, parseVars, aggVars, tickVars, toolVars, storeVars, pc, user_query, conversation_id, memory_enabled, chairman,
                   tool_outputs, stage1_results, stage2_results,
                   aggregate_rankings, stage3_result, returned, save_calls,
                   metric_calls, visited>>

\* (mutant) the aggregation is skipped
AfterStage2Skip == "Synthesizing"

\* line 556 follows line 553
AfterStage2 == "Aggregating"

\* lines 154-168: the fan-out returns and the rankings are parsed and
\* collected; the responses are local to the stage and gone when it returns
Stage2Collect ==
    /\ pc = "CollectingRankings"
    /\ inflight = "stage2"
    /\ FanOutReturned(calls)
    /\ stage2_results' = Stage2Results(QueryModelsParallel(calls))
    /\ pc' = AfterStage2
    /\ Enter(AfterStage2)
    /\ inflight' = "none"
    /\ calls' = NoCalls
    /\ UNCHANGED <<msgVars, updVars, parseVars, aggVars, tickVars, toolVars, storeVars, user_query, conversation_id, memory_enabled, settled,
                   chairman, tool_outputs, stage1_results, label_to_model,
                   aggregate_rankings, stage3_result, returned, issued,
                   save_calls, metric_calls>>

\* line 556
Aggregate ==
    /\ pc = "Aggregating"
    /\ aggregate_rankings' =
            calculate_aggregate_rankings(stage2_results, label_to_model)
    /\ pc' = "Synthesizing"
    /\ Enter("Synthesizing")
    /\ UNCHANGED <<msgVars, updVars, parseVars, aggVars, tickVars, toolVars, storeVars, user_query, conversation_id, memory_enabled, inflight, calls,
                   settled, chairman, tool_outputs, stage1_results,
                   label_to_model, stage2_results, stage3_result, returned,
                   issued, save_calls, metric_calls>>

\* stage3_synthesize_final up to the chairman's call (lines 188-221)
Stage3Begin ==
    /\ pc = "Synthesizing"
    /\ inflight = "none"
    /\ chairman' = PendingCall
    /\ inflight' = "stage3"
    /\ issued' = [issued EXCEPT !.stage3 = @ + 1]
    /\ UNCHANGED <<msgVars, updVars, parseVars, aggVars, tickVars, toolVars, storeVars, pc, user_query, conversation_id, memory_enabled, calls,
                   settled, tool_outputs, stage1_results, label_to_model,
                   stage2_results, aggregate_rankings, stage3_result, returned,
                   save_calls, metric_calls, visited>>

\* the chairman's call settles
ChairmanSettle ==
    /\ inflight = "stage3"
    /\ chairman.status = "pending"
    /\ \E r \in Replies("stage3") : chairman' = r
    /\ UNCHANGED <<msgVars, updVars, parseVars, aggVars, tickVars, toolVars, storeVars, pc, user_query, conversation_id, memory_enabled, inflight,
                   calls, settled, tool_outputs, stage1_results, label_to_model,
                   stage2_results, aggregate_rankings, stage3_result, returned,
                   issued, save_calls, metric_calls, visited>>

\* lines 221-233 and 559-564: stage 3 returns its answer or the fallback
Stage3Return ==
    /\ pc = "Synthesizing"
    /\ inflight = "stage3"
    /\ chairman.status \in {"ok", "fail"}
    /\ stage3_result' = Stage3Result(chairman)
    /\ pc' = "Persisting"
    /\ Enter("Persisting")
    /\ inflight' = "none"
    /\ UNCHANGED <<msgVars, updVars, parseVars, aggVars, tickVars, toolVars, storeVars, user_query, conversation_id, memory_enabled, calls, settled,
                   chairman, tool_outputs, stage1_results, label_to_model,
                   stage2_results, aggregate_rankings, returned, issued,
                   save_calls, metric_calls>>

\* lines 572-582: the token savings, the metadata and the return
Finish ==
    /\ \E savings \in TokenSavingsOutcomes : returned' = FullReturn(savings)
    /\ metric_calls' = metric_calls + 1
    /\ pc' = "Done"
    /\ Enter("Done")

\* lines 567-582 without a conversation id: nothing is saved
PersistSkipped ==
    /\ pc = "Persisting"
    /\ conversation_id = NoConversation
    /\ Finish
    /\ UNCHANGED <<msgVars, updVars, parseVars, aggVars, tickVars, toolVars, storeVars, user_query, conversation_id, memory_enabled, inflight, calls,
                   settled, chairman, tool_outputs, stage1_results,
                   label_to_model, stage2_results, aggregate_rankings,
                   stage3_result, issued, save_calls>>

\* lines 567-582 with a conversation id: the memory object is built and
\* save_exchange is called with the query and the stage 3 text
PersistSaved ==
    /\ pc = "Persisting"
    /\ conversation_id # NoConversation
    /\ "ok" \in MemoryInitOutcomes
    /\ \E stored \in SaveOutcomes :
        save_calls' = Append(save_calls,
                             [user_msg |-> user_query,
                              assistant_msg |-> stage3_result.response,
                              stored |-> stored])
    /\ Finish
    /\ UNCHANGED <<msgVars, updVars, parseVars, aggVars, tickVars, toolVars, storeVars, user_query, conversation_id, memory_enabled, inflight, calls,
                   settled, chairman, tool_outputs, stage1_results,
                   label_to_model, stage2_results, aggregate_rankings,
                   stage3_result, issued>>

\* line 568: CouncilMemorySystem(conversation_id) raises; nothing catches it and
\* run_full_council raises to its caller
PersistRaises ==
    /\ pc = "Persisting"
    /\ conversation_id # NoConversation
    /\ "raise" \in MemoryInitOutcomes
    /\ pc' = "Raised"
    /\ UNCHANGED <<msgVars, updVars, parseVars, aggVars, tickVars, toolVars, storeVars, user_query, conversation_id, memory_enabled, inflight, calls,
                   settled, chairman, tool_outputs, stage1_results,
                   label_to_model, stage2_results, aggregate_rankings,
                   stage3_result, returned, issued, save_calls, metric_calls,
                   visited>>

Next ==
    \/ Stage1Begin
    \/ Stage1MemoryRaises
    \/ \E m \in Models : TransportSettle(m)
    \/ Stage1Collect
    \/ Stage2Begin
    \/ Stage2Collect
    \/ Aggregate
    \/ Stage3Begin
    \/ ChairmanSettle
    \/ Stage3Return
    \/ PersistSkipped
    \/ PersistSaved
    \/ PersistRaises

-----------------------------------------------------------------------------
(* The messages of stage 1: stage1_collect_responses up to the fan-out     *)
(* (council.py 28-77).  A context entry is a dict: a record whose fields   *)
(* are its keys.                                                           *)

\* the length of the longest run of characters of S ending at t[i]
RECURSIVE RunLenBack(_, _, _)
RunLenBack(t, i, S) ==
    IF i >= 1 /\ t[i] \in S THEN 1 + RunLenBack(t, i - 1, S) ELSE 0

\* str.strip(): the text without its leading and trailing whitespace
Strip(t) ==
    LET lead == RunLen(t, 1, Whitespace)
    IN  IF lead = Len(t) THEN <<>>
        ELSE SubSeq(t, lead + 1, Len(t) - RunLenBack(t, Len(t), Whitespace))

RecentEntries == 6

\* (mutant) the context is used whole
SliceAll(seq, n) == seq

\* seq[-n:]: the last n items, all of them when there are fewer
SliceLast(seq, n) ==
    SubSeq(seq, (IF Len(seq) > n THEN Len(seq) - n ELSE 0) + 1, Len(seq))

MaxAnswerChars == 200

ContextHeader == <<"P", "r", "e", "v", "i", "o", "u", "s", " ", "c", "o", "n", "v", "e", "r", "s", "a", "t", "i", "o", "n", ":", "\n", "\n">>

UserPrefix == <<"U", "s", "e", "r", ":", " ">>

CouncilPrefix == <<"C", "o", "u", "n", "c", "i", "l", ":", " ">>

BlankLine == <<"\n", "\n">>

\* lines 44-46: the final answer, cut to its first 200 characters
TruncateAnswer(final_answer) ==
    IF Len(final_answer) > MaxAnswerChars
    THEN SubSeq(final_answer, 1, MaxAnswerChars) \o Ellipsis
    ELSE final_answer

\* lines 38-47: what one entry adds to context_text
ContextLine(msg) ==
    IF msg.role = "user"
    THEN UserPrefix \o msg.content \o BlankLine
    ELSE IF msg.role = "assistant" /\ "stage3" \in DOMAIN msg
         THEN CouncilPrefix \o TruncateAnswer(msg.stage3.response) \o BlankLine
         ELSE <<>>

\* the loop of line 37
RECURSIVE ContextText(_, _)
ContextText(context_text, recent_context) ==
    IF recent_context = <<>> THEN context_text
    ELSE ContextText(context_text \o ContextLine(Head(recent_context)),
                     Tail(recent_context))

SystemMessage(content) == [role |-> "system", content |-> content]

\* lines 32-53; a context of None is the empty sequence
ContextMessages(context) ==
    IF context # <<>>
    THEN <<SystemMessage(Strip(ContextText(ContextHeader,
                                          SliceLast(context, RecentEntries))))>>
    ELSE <<>>

RelevantPrefix == <<"R", "e", "l", "e", "v", "a", "n", "t", " ", "p", "a", "s", "t", " ", "e", "x", "c", "h", "a", "n", "g", "e", "s", ":", "\n">>

\* what the memory system does at lines 57-59: there is no conversation id,
\* CouncilMemorySystem(conversation_id) raises, get_context returns "" (memory
\* disabled, nothing relevant, or the retriever failed) or it returns a text
MemoryCases == {"no_id", "raise", "empty", "found"}

MemoryText == <<"U", "s", "e", "r", ":", " ", "o", "l", "d", "\n", "A", "s", "s", "i", "s", "t", "a", "n", "t", ":", " ", "r", "e", "p", "l", "y">>

MemoryCtx(case) == IF case = "found" THEN MemoryText ELSE <<>>

\* lines 60-61
MemoryMessages(memory_ctx) ==
    IF memory_ctx # <<>>
    THEN <<SystemMessage(RelevantPrefix \o memory_ctx)>>
    ELSE <<>>

ToolHeader == <<"T", "o", "o", "l", " ", "o", "u", "t", "p", "u", "t", "s", ":", "\n">>

ToolNameText ==
    [calculator |-> <<"c", "a", "l", "c", "u", "l", "a", "t", "o", "r">>,
     wikipedia |-> <<"w", "i", "k", "i", "p", "e", "d", "i", "a">>,
     arxiv |-> <<"a", "r", "x", "i", "v">>,
     web_search |-> <<"w", "e", "b", "_", "s", "e", "a", "r", "c", "h">>,
     stock_data |-> <<"s", "t", "o", "c", "k", "_", "d", "a", "t", "a">>,
     tavily_search |-> <<"t", "a", "v", "i", "l", "y", "_", "s", "e", "a", "r", "c", "h">>]

\* f"- {item['tool']}: {item['result']}"
ToolLine(item) ==
    <<"-", " ">> \o ToolNameText[item.tool] \o <<":", " ">> \o item.result

\* "\n".join(lines)
RECURSIVE JoinLines(_)
JoinLines(items) ==
    IF items = <<>> THEN <<>>
    ELSE IF Len(items) = 1 THEN ToolLine(Head(items))
    ELSE ToolLine(Head(items)) \o <<"\n">> \o JoinLines(Tail(items))

\* lines 67-71
ToolMessages(outputs) ==
    IF outputs # <<>>
    THEN <<SystemMessage(ToolHeader \o JoinLines(outputs))>>
    ELSE <<>>

\* lines 29-74: messages
BuildMessages(query, context, memory_ctx, outputs) ==
    ContextMessages(context) \o MemoryMessages(memory_ctx)
        \o ToolMessages(outputs)
        \o <<[role |-> "user", content |-> query]>>

\* ---- the inputs: the i-th entry of a context carries i in its text

MaxContext == 8

Tagged(c, i) == <<c, DigitChar(i)>>

\* an answer of 201 characters
LongAnswer(i) == Tagged("L", i) \o [k \in 1..(MaxAnswerChars - 1) |-> "x"]

UserEntry(i) == [role |-> "user", content |-> Tagged("q", i)]

CouncilEntry(i, response) ==
    [role |-> "assistant",
     stage3 |-> [model |-> CHAIRMAN_MODEL, response |-> response]]

PlainEntry(role, i) == [role |-> role, content |-> Tagged("p", i)]

\* an exchange is a user entry and then an assistant entry; a system entry or
\* an assistant entry without stage3 may stand in their places
EntriesAt(i) ==
    IF i % 2 = 1
    THEN {UserEntry(i), PlainEntry("system", i)}
    ELSE {CouncilEntry(i, Tagged("a", i)), CouncilEntry(i, LongAnswer(i)),
          PlainEntry("assistant", i)}

RECURSIVE ContextsOfLen(_)
ContextsOfLen(n) ==
    IF n = 0 THEN {<<>>}
    ELSE {Append(c, e) : c \in ContextsOfLen(n - 1), e \in EntriesAt(n)}

Contexts == UNION {ContextsOfLen(n) : n \in 0..MaxContext}

StockResultSample == [tool |-> "stock_data", result |-> <<"A", ":", " ", "$", "1">>]

\* what run_tools_for_query may return at line 65
Stage1ToolOutputs(query) ==
    IF requires_tools(query)
    THEN RunToolsOutcomes \cup {<<StockResultSample, ToolResultSample>>}
    ELSE {<<>>}

NotSent == [m \in Models |-> <<>>]

MsgIdle ==
    /\ s1_pc = "idle"
    /\ s1_query = <<>>
    /\ s1_context = <<>>
    /\ s1_memory = "no_id"
    /\ s1_tool_outputs = <<>>
    /\ s1_messages = <<>>
    /\ s1_sent = NotSent

\* lines 28-74: the messages are built
Stage1Build ==
    /\ s1_pc = "input"
    /\ s1_memory # "raise"
    /\ s1_messages' = BuildMessages(s1_query, s1_context, MemoryCtx(s1_memory),
                                    s1_tool_outputs)
    /\ s1_pc' = "built"
    /\ UNCHANGED <<s1_query, s1_context, s1_memory, s1_tool_outputs, s1_sent,
                   parseVars, aggVars, ctlVars, tickVars, toolVars, storeVars,
                   updVars>>

\* line 58 raises: the function ends and nothing is sent
Stage1BuildRaises ==
    /\ s1_pc = "input"
    /\ s1_memory = "raise"
    /\ s1_pc' = "raised"
    /\ UNCHANGED <<s1_query, s1_context, s1_memory, s1_tool_outputs,
                   s1_messages, s1_sent, parseVars, aggVars, ctlVars, tickVars,
                   toolVars, storeVars, updVars>>

\* line 77: query_models_parallel(COUNCIL_MODELS, messages) sends the messages
\* to every model
Stage1FanOut ==
    /\ s1_pc = "built"
    /\ s1_sent' = [m \in Models |-> s1_messages]
    /\ s1_pc' = "sent"
    /\ UNCHANGED <<s1_query, s1_context, s1_memory, s1_tool_outputs,
                   s1_messages, parseVars, aggVars, ctlVars, tickVars, toolVars,
                   storeVars, updVars>>

NextStage1 ==
    \/ Stage1Build
    \/ Stage1BuildRaises
    \/ Stage1FanOut

-----------------------------------------------------------------------------
(* Callers of add_user_message, add_assistant_message and                  *)
(* update_conversation_title (storage.py 259-324).  A call is a            *)
(* get_conversation and then a save_conversation of the copy it changed;   *)
(* the steps of the calls of different callers may interleave.             *)

Callers == {"t1", "t2"}

MaxCalls == 3

\* lines 215-218 and 231-234: the backend is chosen by is_using_database()
get_conversation(backend, store, id) ==
    IF backend = "db" THEN _db_get_conversation(store, id)
    ELSE _json_get_conversation(store, id)

save_conversation(backend, store, conversation) ==
    IF backend = "db" THEN _db_save_conversation(store, conversation)
    ELSE _json_save_conversation(store, conversation)

\* (mutant) the messages are replaced by the new message
ReplaceMessages(conversation, message) ==
    [conversation EXCEPT !.messages = <<message>>]

\* conversation["messages"].append(message)
AppendMessage(conversation, message) ==
    [conversation EXCEPT !.messages = Append(@, message)]

\* conversation["title"] = title
SetTitle(conversation, title) == [conversation EXCEPT !.title = title]

\* the text that tells the n-th call of a caller from every other call
CallTag(caller, n) == <<caller, DigitChar(n)>>

UserMessage(content) == [role |-> "user", content |-> content]

AssistantMessage(stage1, stage2, stage3, metadata) ==
    [role |-> "assistant", stage1 |-> stage1, stage2 |-> stage2,
     stage3 |-> stage3, metadata |-> metadata]

NoLocal == [pc |-> "idle", op |-> "none", arg |-> <<>>, conversation |-> <<>>]

CallsMade == up_done["t1"] + up_done["t2"]

UpdIdle ==
    /\ up_backend = "json"
    /\ up_store = {}
    /\ up_local = [c \in Callers |-> NoLocal]
    /\ up_done = [c \in Callers |-> 0]
    /\ up_log = <<>>

Event(caller, step, op, id, arg) ==
    [caller |-> caller, n |-> up_done[caller] + 1, step |-> step, op |-> op,
     id |-> id, arg |-> arg]

\* the first half of a call: get_conversation returns None and the call raises
\* ValueError, or the copy it returned is changed
GetStep(caller, op, id, arg) ==
    /\ up_local[caller].pc = "idle"
    /\ CallsMade + Cardinality({c \in Callers : up_local[c].pc = "got"})
            < MaxCalls
    /\ LET got == get_conversation(up_backend, up_store, id).ret
       IN  IF ~got.found
           THEN /\ up_done' = [up_done EXCEPT ![caller] = @ + 1]
                /\ up_log' = Append(up_log, Event(caller, "raise", op, id, arg))
                /\ UNCHANGED <<up_local, up_store>>
           ELSE /\ up_local' =
                    [up_local EXCEPT ![caller] =
                        [pc |-> "got", op |-> op, arg |-> arg,
                         conversation |->
                            IF op = "update_conversation_title"
                            THEN SetTitle(got.rows[1], arg)
                            ELSE AppendMessage(got.rows[1], arg)]]
                /\ up_log' = Append(up_log, Event(caller, "get", op, id, arg))
                /\ UNCHANGED <<up_done, up_store>>
    /\ UNCHANGED <<up_backend, parseVars, aggVars, ctlVars, tickVars, toolVars,
                   storeVars, msgVars>>

\* lines 267-274
add_user_message(caller, id) ==
    GetStep(caller, "add_user_message", id,
            UserMessage(CallTag(caller, up_done[caller] + 1)))

\* lines 296-306
add_assistant_message(caller, id) ==
    GetStep(caller, "add_assistant_message", id,
            AssistantMessage(<<>>, <<>>,
                [model |-> CHAIRMAN_MODEL,
                 response |-> CallTag(caller, up_done[caller] + 1)],
                EmptyDict))

\* lines 319-323
update_conversation_title(caller, id) ==
    GetStep(caller, "update_conversation_title", id,
            CallTag(caller, up_done[caller] + 1))

\* the second half of a call: save_conversation(conversation) (lines 276, 308
\* and 324)
SaveStep(caller) ==
    /\ up_local[caller].pc = "got"
    /\ up_store' = save_conversation(up_backend, up_store,
                                     up_local[caller].conversation).store
    /\ up_log' = Append(up_log,
                        Event(caller, "save", up_local[caller].op,
                              up_local[caller].conversation.id,
                              up_local[caller].arg))
    /\ up_done' = [up_done EXCEPT ![caller] = @ + 1]
    /\ up_local' = [up_local EXCEPT ![caller] = NoLocal]
    /\ UNCHANGED <<up_backend, parseVars, aggVars, ctlVars, tickVars, toolVars,
                   storeVars, msgVars>>

NextUpdate ==
    \/ \E c \in Callers, id \in StoreIds : add_user_message(c, id)
    \/ \E c \in Callers, id \in StoreIds : add_assistant_message(c, id)
    \/ \E c \in Callers, id \in StoreIds : update_conversation_title(c, id)
    \/ \E c \in Callers : SaveStep(c)

-----------------------------------------------------------------------------
(* The specifications.                                                     *)

ParseIdle ==
    /\ ranking_text = <<>>
    /\ parse_result = <<>>
    /\ parse_pc = "idle"

InitParse ==
    /\ ranking_text \in ParseInputs
    /\ parse_result = <<>>
    /\ parse_pc = "input"
    /\ AggIdle
    /\ CtlIdle
    /\ TickIdle
    /\ ToolsIdle
    /\ StoreIdle
    /\ MsgIdle
    /\ UpdIdle

ParseCall ==
    /\ parse_pc = "input"
    /\ parse_result' = parse_ranking_from_text(ranking_text)
    /\ parse_pc' = "done"
    /\ UNCHANGED <<msgVars, updVars, ranking_text, aggVars, ctlVars, tickVars, toolVars, storeVars>>

NextParse == ParseCall

SpecParse == InitParse /\ [][NextParse]_vars

InitAgg ==
    /\ agg_stage2 \in AggStage2Inputs
    /\ agg_label_to_model \in AggLabelMaps
    /\ agg_result = <<>>
    /\ agg_pc = "input"
    /\ ParseIdle
    /\ CtlIdle
    /\ TickIdle
    /\ ToolsIdle
    /\ StoreIdle
    /\ MsgIdle
    /\ UpdIdle

AggCall ==
    /\ agg_pc = "input"
    /\ agg_result' = calculate_aggregate_rankings(agg_stage2, agg_label_to_model)
    /\ agg_pc' = "done"
    /\ UNCHANGED <<msgVars, updVars, agg_stage2, agg_label_to_model, parseVars, ctlVars, tickVars, toolVars, storeVars>>

NextAgg == AggCall

SpecAgg == InitAgg /\ [][NextAgg]_vars

InitTick ==
    /\ tick_text \in TickInputs
    /\ tick_result = <<>>
    /\ tick_pc = "input"
    /\ ParseIdle
    /\ AggIdle
    /\ CtlIdle
    /\ ToolsIdle
    /\ StoreIdle
    /\ MsgIdle
    /\ UpdIdle

TickCall ==
    /\ tick_pc = "input"
    /\ tick_result' = extract_ticker_candidates(tick_text)
    /\ tick_pc' = "done"
    /\ UNCHANGED <<msgVars, updVars, tick_text, parseVars, aggVars, ctlVars, toolVars, storeVars>>

NextTick == TickCall

SpecTick == InitTick /\ [][NextTick]_vars

InitTools ==
    /\ rt_pc = "input"
    /\ rt_query \in ToolQueries
    /\ rt_limit \in 0..MaxLimit
    /\ rt_tools \in ToolLists
    /\ rt_results = <<>>
    /\ rt_pass = "none"
    /\ rt_tickers = <<>>
    /\ rt_idx = 0
    /\ rt_seen = {}
    /\ rt_stock_results = <<>>
    /\ rt_calls = <<>>
    /\ ParseIdle
    /\ AggIdle
    /\ TickIdle
    /\ CtlIdle
    /\ StoreIdle
    /\ MsgIdle
    /\ UpdIdle

SpecTools == InitTools /\ [][NextTools]_vars

InitStore ==
    /\ st_json = {}
    /\ st_db = {}
    /\ st_clock = 0
    /\ st_last = NoCall
    /\ ParseIdle
    /\ AggIdle
    /\ TickIdle
    /\ ToolsIdle
    /\ CtlIdle
    /\ MsgIdle
    /\ UpdIdle

SpecStore == InitStore /\ [][NextStore]_vars

InitStage1 ==
    /\ s1_pc = "input"
    /\ s1_query \in Queries
    /\ s1_context \in Contexts
    /\ s1_memory \in MemoryCases
    /\ s1_tool_outputs \in Stage1ToolOutputs(s1_query)
    /\ s1_messages = <<>>
    /\ s1_sent = NotSent
    /\ ParseIdle
    /\ AggIdle
    /\ CtlIdle
    /\ TickIdle
    /\ ToolsIdle
    /\ StoreIdle
    /\ UpdIdle

SpecStage1 == InitStage1 /\ [][NextStage1]_vars

\* one conversation exists, created by create_conversation("c1")
InitUpdate ==
    /\ up_backend \in {"json", "db"}
    /\ up_store = {NewConversation("c1", 1)}
    /\ up_local = [c \in Callers |-> NoLocal]
    /\ up_done = [c \in Callers |-> 0]
    /\ up_log = <<>>
    /\ ParseIdle
    /\ AggIdle
    /\ CtlIdle
    /\ TickIdle
    /\ ToolsIdle
    /\ StoreIdle
    /\ MsgIdle

SpecUpdate == InitUpdate /\ [][NextUpdate]_vars

Init ==
    /\ InitCtl
    /\ ParseIdle
    /\ AggIdle
    /\ TickIdle
    /\ ToolsIdle
    /\ StoreIdle
    /\ MsgIdle
    /\ UpdIdle

Spec == Init /\ [][Next]_vars

-----------------------------------------------------------------------------
(* Claims about the parser.                                                *)

\* the text after the first occurrence of the marker, up to the end of the text
AfterFirstMarker(t) == SubSeq(t, Find(t, Marker, 1) + Len(Marker), Len(t))

\* the "Response X" token of a numbered match is its last LabelLen characters
TokenOf(m) == SubSeq(m, Len(m) - LabelLen + 1, Len(m))

NumberedTokens(s) ==
    [k \in 1..Len(FindallNumbered(s)) |-> TokenOf(FindallNumbered(s)[k])]

MarkerCount(t) == Cardinality({i \in 1..Len(t) : IsPrefixAt(t, Marker, i)})

\* C8: when the marker is present, only the text after its first occurrence
\* counts, all of it up to the end of the text; if that text has numbered
\* matches, the result is exactly their "Response X" tokens, in order.
C8_NumberedAfterFirstMarker ==
    (/\ parse_pc = "done"
     /\ Contains(ranking_text, Marker)
     /\ FindallNumbered(AfterFirstMarker(ranking_text)) # <<>>)
    => parse_result = NumberedTokens(AfterFirstMarker(ranking_text))

\* C9: with the marker present and no numbered match after it, the result is
\* every "Response X" of the text after the first marker; with the marker
\* absent, every "Response X" of the full text.
C9_FallbackSameScope ==
    parse_pc = "done" =>
        /\ (/\ Contains(ranking_text, Marker)
            /\ FindallNumbered(AfterFirstMarker(ranking_text)) = <<>>)
           => parse_result = FindallLabel(AfterFirstMarker(ranking_text))
        /\ ~Contains(ranking_text, Marker)
           => parse_result = FindallLabel(ranking_text)


-----------------------------------------------------------------------------
(* Claims about the aggregator.                                            *)

\* the parsed label sequence of the i-th ranking answer
AggParsed(i) == parse_ranking_from_text(agg_stage2[i].ranking)

\* the occurrences <<answer, position>> of labels that the label map maps to m
AggOccurrences(m) ==
    UNION {LET parsed == AggParsed(i)
           IN  {<<i, k>> : k \in {k2 \in 1..Len(parsed) :
                                    /\ parsed[k2] \in DOMAIN agg_label_to_model
                                    /\ agg_label_to_model[parsed[k2]] = m}} :
           i \in 1..Len(agg_stage2)}

AggReferenced ==
    {m \in {agg_label_to_model[l] : l \in DOMAIN agg_label_to_model} :
        AggOccurrences(m) # {}}

RECURSIVE SumPositions(_)
SumPositions(S) ==
    IF S = {} THEN 0
    ELSE LET p == CHOOSE q \in S : TRUE IN p[2] + SumPositions(S \ {p})

\* avg (in hundredths) is total / n rounded to 2 decimals
IsRounded2(avg, total, n) ==
    LET diff == 100 * total - avg * n
    IN  2 * (IF diff < 0 THEN -diff ELSE diff) <= n

AggExampleInput ==
    /\ Len(agg_stage2) = 2
    /\ AggParsed(1) = <<LabelA, LabelB, LabelC>>
    /\ AggParsed(2) = <<LabelB, LabelA, LabelC>>
    /\ agg_label_to_model = BuildLabelMap(Stage1Of(SubSeq(COUNCIL_MODELS, 1, 3)))

\* C10: the aggregate has exactly one entry per responder-id that the label map
\* reaches from some label of some parsed sequence and none for any other; its
\* count is the number of those label occurrences and its mean is the sum of
\* their 1-based positions divided by the count, rounded to 2 decimals; the
\* rankings A,B,C and B,A,C give the means 1.5, 1.5 and 3.0.
C10_AggregateEntries ==
    agg_pc = "done" =>
        /\ Len(agg_result) = Cardinality(AggReferenced)
        /\ {agg_result[j].model : j \in 1..Len(agg_result)} = AggReferenced
        /\ \A j \in 1..Len(agg_result) :
            LET occ == AggOccurrences(agg_result[j].model)
            IN  /\ agg_result[j].rankings_count = Cardinality(occ)
                /\ IsRounded2(agg_result[j].average_rank, SumPositions(occ),
                              Cardinality(occ))
        /\ AggExampleInput =>
            {<<agg_result[j].model, agg_result[j].average_rank>> :
                j \in 1..Len(agg_result)}
            = {<<COUNCIL_MODELS[1], 150>>, <<COUNCIL_MODELS[2], 150>>,
               <<COUNCIL_MODELS[3], 300>>}

\* the example of C10 has been aggregated
C10_Witness ==
    /\ agg_pc = "done"
    /\ AggExampleInput
    /\ Len(agg_result) = 3

\* an answer with a duplicated label and an unmapped label before a mapped one
\* has been aggregated
C10_WitnessIrregular ==
    /\ agg_pc = "done"
    /\ \E i \in 1..Len(agg_stage2) :
        /\ AggParsed(i) = <<LabelB, LabelA>>
        /\ LabelB \notin DOMAIN agg_label_to_model
        /\ LabelA \in DOMAIN agg_label_to_model
    /\ \E i \in 1..Len(agg_stage2) : AggParsed(i) = <<LabelA, LabelA>>
    /\ Len(agg_result) = 1

\* the first occurrence <<answer, position>> at which a position was recorded
\* for responder m, walking the answers in sequence
FirstRecorded(m) ==
    LET occ == AggOccurrences(m)
    IN  CHOOSE p \in occ :
            \A q \in occ :
                \/ p[1] < q[1]
                \/ (p[1] = q[1] /\ p[2] <= q[2])

RecordedBefore(m1, m2) ==
    LET p == FirstRecorded(m1)
        q == FirstRecorded(m2)
    IN  \/ p[1] < q[1]
        \/ (p[1] = q[1] /\ p[2] < q[2])

\* C11: the aggregate is sorted ascending by mean rank (the average_rank of
\* its entries), two entries of equal mean rank are in the order in which
\* their responders first had a position recorded, and in the example with
\* the rankings A,B,C and B,A,C the responder of A precedes the responder of B.
C11_SortedStable ==
    agg_pc = "done" =>
        /\ \A i, j \in 1..Len(agg_result) :
            i < j =>
                /\ agg_result[i].average_rank <= agg_result[j].average_rank
                /\ agg_result[i].average_rank = agg_result[j].average_rank
                   => RecordedBefore(agg_result[i].model, agg_result[j].model)
        /\ AggExampleInput =>
            /\ agg_result[1].model = COUNCIL_MODELS[1]
            /\ agg_result[2].model = COUNCIL_MODELS[2]
            /\ agg_result[3].model = COUNCIL_MODELS[3]

\* the example has been aggregated: the first two entries tie
C11_Witness ==
    /\ agg_pc = "done"
    /\ AggExampleInput
    /\ Len(agg_result) = 3
    /\ agg_result[1].average_rank = agg_result[2].average_rank

\* a tie in which the responder of B was recorded first and precedes the
\* responder of A, against the configured order
C11_WitnessReversed ==
    /\ agg_pc = "done"
    /\ Len(agg_stage2) = 2
    /\ AggParsed(1) = <<LabelB, LabelA>>
    /\ AggParsed(2) = <<LabelA, LabelB>>
    /\ Len(agg_result) = 2
    /\ agg_result[1].model = COUNCIL_MODELS[2]
    /\ agg_result[2].model = COUNCIL_MODELS[1]
    /\ agg_result[1].average_rank = agg_result[2].average_rank

-----------------------------------------------------------------------------
(* Claims about the controller.                                            *)

Terminal == {"Done", "Aborted", "Raised"}

VisitedSet == {visited[i] : i \in 1..Len(visited)}

IsPrefix(p, q) == Len(p) <= Len(q) /\ SubSeq(q, 1, Len(p)) = p

FullPath ==
    <<"CollectingAnswers", "CollectingRankings", "Aggregating", "Synthesizing",
      "Persisting", "Done">>

AbortPath == <<"CollectingAnswers", "Aborted">>

\* the position of a model in the configured order
ConfigIndex(m) == CHOOSE i \in 1..Len(COUNCIL_MODELS) : COUNCIL_MODELS[i] = m

\* stage 1 has collected and found no answer
Stage1CameBackEmpty ==
    /\ issued.stage1 > 0
    /\ inflight # "stage1"
    /\ stage1_results = <<>>

\* C1: when every stage 1 call has failed, so that stage 1 collects nothing,
\* the round is in the Aborted state: no stage 2 and no stage 3 call has been
\* issued, save_exchange and the token-savings metric have not been called,
\* and the returned transcript has empty stage 1 and stage 2 sections, the
\* fixed all-failed message in place of a synthesis, and no metadata.
C1_AllFailedAborts ==
    Stage1CameBackEmpty =>
        /\ pc = "Aborted"
        /\ \A m \in Models : calls[m].status = "fail"
        /\ issued.stage2 = 0
        /\ issued.stage3 = 0
        /\ save_calls = <<>>
        /\ metric_calls = 0
        /\ returned.stage1 = <<>>
        /\ returned.stage2 = <<>>
        /\ returned.stage3.response = AllFailedMessage
        /\ returned.stage3.model # CHAIRMAN_MODEL
        /\ returned.metadata = EmptyDict

\* every call of stage 1 failed in a round that was given a conversation id and
\* has the memory enabled
C1_Witness ==
    /\ pc = "Aborted"
    /\ conversation_id # NoConversation
    /\ memory_enabled
    /\ \A m \in Models : calls[m].status = "fail"

\* C2: an empty Stage1Set is the only thing that stops a round: once stage 1
\* has collected an answer, the round ends in Done, with the synthesizer
\* queried exactly once, whatever the outcomes of stage 2; when every stage 2
\* call failed the rankings and the aggregate are empty.
C2_OnlyEmptyStage1Aborts ==
    (pc \in Terminal /\ stage1_results # <<>>) =>
        /\ pc = "Done"
        /\ issued.stage3 = 1
        /\ returned.stage2 = <<>> => returned.metadata.aggregate_rankings = <<>>

\* C3: when the synthesizer call fails, stage 3 returns the synthesizer's id
\* with the fixed error text, and the round still goes through Persisting to
\* Done and returns the Stage1Set, the rankings, the label map and the
\* aggregate as they were before the synthesis.
C3_SynthesisFailureDegrades ==
    (chairman.status = "fail" /\ pc \in {"Persisting"} \cup Terminal) =>
        /\ stage3_result = [model |-> CHAIRMAN_MODEL, response |-> SynthesisError]
        /\ pc \in {"Persisting", "Done"}
        /\ pc = "Done" =>
            /\ returned.stage1 = stage1_results
            /\ returned.stage2 = stage2_results
            /\ returned.stage3 = stage3_result
            /\ returned.metadata.label_to_model = label_to_model
            /\ returned.metadata.aggregate_rankings = aggregate_rankings

\* C4: persistence is best effort: once the round is in Persisting, no failure
\* of the memory collaborator, the construction of the memory object included,
\* raises to the caller; the round ends in Done and returns the transcript
\* produced before.
C4_PersistenceBestEffort ==
    "Persisting" \in VisitedSet =>
        /\ pc \in {"Persisting", "Done"}
        /\ pc = "Done" =>
            /\ returned.stage1 = stage1_results
            /\ returned.stage2 = stage2_results
            /\ returned.stage3 = stage3_result
            /\ returned.metadata.label_to_model = label_to_model
            /\ returned.metadata.aggregate_rankings = aggregate_rankings
            /\ returned.metadata.tool_outputs = tool_outputs

\* C5: the controller's states are entered in the order CollectingAnswers,
\* CollectingRankings, Aggregating, Synthesizing, Persisting, Done, or
\* CollectingAnswers, Aborted; a stage collects its results only when every
\* call of its fan-out has settled; the stage 2 calls are issued only after
\* every stage 1 call has settled and the stage 3 call only after every stage 2
\* call has settled.
C5_StageOrder ==
    [][/\ IsPrefix(visited', FullPath) \/ IsPrefix(visited', AbortPath)
       /\ pc' # "Raised" => pc' = visited'[Len(visited')]
       /\ stage1_results' # stage1_results =>
            /\ inflight = "stage1"
            /\ \A m \in Models : calls[m].status \in {"ok", "fail"}
       /\ stage2_results' # stage2_results =>
            /\ inflight = "stage2"
            /\ \A m \in Models : calls[m].status \in {"ok", "fail"}
       /\ issued'.stage2 # issued.stage2 =>
            /\ issued.stage2 = 0
            /\ issued.stage1 = Len(COUNCIL_MODELS)
            /\ inflight = "none"
            /\ \A m \in Models : calls[m].status \in {"ok", "fail"}
       /\ issued'.stage3 # issued.stage3 =>
            /\ issued.stage3 = 0
            /\ issued.stage2 = Len(COUNCIL_MODELS)
            /\ inflight = "none"
            /\ \A m \in Models : calls[m].status # "pending"
            /\ visited[Len(visited)] = "Synthesizing"
      ]_vars

\* a round has gone through every state to Done, with some stage 2 call failed
C5_Witness ==
    /\ pc = "Done"
    /\ visited = FullPath
    /\ issued = [stage1 |-> Len(COUNCIL_MODELS), stage2 |-> Len(COUNCIL_MODELS),
                 stage3 |-> 1]
    /\ Len(stage2_results) = 2

\* stage 1 has just collected: the calls still show how each responder ended
Stage1JustCollected ==
    /\ pc \in {"CollectingRankings", "Aborted"}
    /\ inflight = "none"

\* C6: whichever responders succeed in stage 1 and in whatever order their
\* calls complete, the Stage1Set has exactly one entry per successful
\* responder, with its answer, none for a failed one, and its entries are in
\* the configured order.
C6_Stage1SetOrdered ==
    Stage1JustCollected =>
        LET ok == {m \in Models : calls[m].status = "ok"}
        IN  /\ Len(stage1_results) = Cardinality(ok)
            /\ {stage1_results[i].model : i \in 1..Len(stage1_results)} = ok
            /\ \A i \in 1..Len(stage1_results) :
                stage1_results[i].response = calls[stage1_results[i].model].content
            /\ \A i, j \in 1..Len(stage1_results) :
                i < j => ConfigIndex(stage1_results[i].model)
                            < ConfigIndex(stage1_results[j].model)

\* the last configured responder completed first, two responders failed, and
\* the two answers were collected
C6_Witness ==
    /\ Stage1JustCollected
    /\ settled = <<COUNCIL_MODELS[4], COUNCIL_MODELS[3], COUNCIL_MODELS[2],
                   COUNCIL_MODELS[1]>>
    /\ calls[COUNCIL_MODELS[1]].status = "fail"
    /\ calls[COUNCIL_MODELS[3]].status = "fail"
    /\ Len(stage1_results) = 2

\* C7: the label map built for a Stage1Set of size N has exactly N entries;
\* the i-th entry of the Stage1Set is mapped from "Response " followed by the
\* i-th uppercase letter; every label is "Response " and one uppercase letter;
\* no two labels map to the same responder.
C7_LabelMapBijection ==
    issued.stage2 > 0 =>
        /\ Cardinality(DOMAIN label_to_model) = Len(stage1_results)
        /\ \A i \in 1..Len(stage1_results) :
            /\ ResponseSp \o <<UpperSeq[i]>> \in DOMAIN label_to_model
            /\ label_to_model[ResponseSp \o <<UpperSeq[i]>>] = stage1_results[i].model
        /\ \A l \in DOMAIN label_to_model :
            /\ Len(l) = Len(ResponseSp) + 1
            /\ SubSeq(l, 1, Len(ResponseSp)) = ResponseSp
            /\ l[Len(l)] \in Upper
        /\ \A l1, l2 \in DOMAIN label_to_model :
            label_to_model[l1] = label_to_model[l2] => l1 = l2

\* the label map of the Stage1Set of the second and the fourth responder
C7_Witness ==
    /\ issued.stage2 > 0
    /\ Len(stage1_results) = 2
    /\ stage1_results[1].model = COUNCIL_MODELS[2]
    /\ stage1_results[2].model = COUNCIL_MODELS[4]
    /\ label_to_model[LabelA] = COUNCIL_MODELS[2]
    /\ label_to_model[LabelB] = COUNCIL_MODELS[4]

\* C17: save_exchange is called at most once in a round; at the end of the
\* round it has been called exactly once if and only if a conversation id was
\* supplied and the round was not aborted; it is called only after the
\* synthesizer call has settled, with the user query and the stage 3 text of
\* the round, the error sentinel when the synthesis failed.
C17_SaveExchangeOnce ==
    /\ Len(save_calls) <= 1
    /\ pc \in Terminal =>
        (Len(save_calls) = 1
            <=> (conversation_id # NoConversation /\ pc # "Aborted"))
    /\ save_calls # <<>> =>
        /\ issued.stage3 = 1
        /\ chairman.status \in {"ok", "fail"}
        /\ save_calls[1].user_msg = user_query
        /\ save_calls[1].assistant_msg = stage3_result.response
        /\ chairman.status = "fail" => save_calls[1].assistant_msg = SynthesisError

-----------------------------------------------------------------------------
(* Claims about the ticker extractor.                                      *)

TickerAAPL == <<"A", "A", "P", "L">>
TickerTSLA == <<"T", "S", "L", "A">>
TickerGOOGL == <<"G", "O", "O", "G", "L">>
NameGOOGLE == <<"G", "O", "O", "G", "L", "E">>
NameALPHABET == <<"A", "L", "P", "H", "A", "B", "E", "T">>

\* C12: applied to "How is APPLE doing vs TESLA today" the extractor returns
\* exactly AAPL, TSLA.
C12_ExampleTickers ==
    (tick_pc = "done" /\ tick_text = TickExample)
        => tick_result = <<TickerAAPL, TickerTSLA>>

\* the tokens of the upper-cased text
TickTokens == FindallTokens(ToUpper(tick_text))

CompanyNames == {it[1] : it \in name_map_items}

CanonicalIds == {it[2] : it \in name_map_items}

\* the identifier a token contributes, the empty text if it contributes none
Contribution(tok) ==
    IF tok \in CompanyNames
    THEN (CHOOSE it \in name_map_items : it[1] = tok)[2]
    ELSE IF tok \notin stop_words /\ Len(tok) \in 1..5 THEN tok
    ELSE <<>>

Contributors(id) == {k \in 1..Len(TickTokens) : Contribution(TickTokens[k]) = id}

FirstContributor(id) == Min(Contributors(id))

\* C13: the result has no identifier twice; every identifier is the canonical
\* identifier of a company name or an upper-cased token of 1 to 5 letters that
\* is no stop word, and some token contributes it; the identifiers are in the
\* order of their first contributing tokens; GOOGLE and ALPHABET together
\* contribute GOOGL once.
C13_DedupFirstAppearance ==
    tick_pc = "done" =>
        /\ \A i, j \in 1..Len(tick_result) :
            i # j => tick_result[i] # tick_result[j]
        /\ \A i \in 1..Len(tick_result) :
            /\ \/ tick_result[i] \in CanonicalIds
               \/ /\ \E k \in 1..Len(TickTokens) : TickTokens[k] = tick_result[i]
                  /\ Len(tick_result[i]) \in 1..5
                  /\ \A c \in 1..Len(tick_result[i]) : tick_result[i][c] \in Upper
                  /\ tick_result[i] \notin stop_words
            /\ Contributors(tick_result[i]) # {}
        /\ \A i, j \in 1..Len(tick_result) :
            i < j => FirstContributor(tick_result[i]) < FirstContributor(tick_result[j])
        /\ (\E k1, k2 \in 1..Len(TickTokens) :
                TickTokens[k1] = NameGOOGLE /\ TickTokens[k2] = NameALPHABET)
           => Cardinality({i \in 1..Len(tick_result) :
                            tick_result[i] = TickerGOOGL}) = 1

\* a text with GOOGLE and ALPHABET has been processed
C13_Witness ==
    /\ tick_pc = "done"
    /\ \E k1, k2 \in 1..Len(TickTokens) :
        TickTokens[k1] = NameGOOGLE /\ TickTokens[k2] = NameALPHABET
    /\ tick_result = <<TickerGOOGL>>

\* a text in which another candidate comes before a ticker
C13_WitnessOrder ==
    /\ tick_pc = "done"
    /\ Len(tick_result) = 2
    /\ tick_result[2] = TickerAAPL

\* a text with a ticker and the company name of the same identifier
C13_WitnessSameId ==
    /\ tick_pc = "done"
    /\ Cardinality(Contributors(TickerAAPL)) = 2
    /\ tick_result = <<TickerAAPL>>

-----------------------------------------------------------------------------
(* Claims about run_tools_for_query.                                       *)

CallIndices == 1..Len(rt_calls)

\* the runs of a tool in a phase
RunsOf(tool, phase) ==
    {k \in CallIndices : rt_calls[k].tool = tool /\ rt_calls[k].phase = phase}

\* C14: run_tools_for_query returns at most limit entries, whether it returns
\* direct ticker quotes, quotes for inferred tickers or the sweep's entries.
C14_AtMostLimit ==
    rt_pc = "done" => Len(rt_results) <= rt_limit

\* the sweep stopped at the limit with tools left
C14_Witness ==
    /\ rt_pc = "done"
    /\ rt_limit >= 1
    /\ Len(rt_results) = rt_limit
    /\ \A k \in CallIndices : rt_calls[k].phase = "sweep"
    /\ rt_idx <= Len(rt_tools)

\* the quotes of the query's own tickers stopped at the limit with a ticker
\* left
C14_WitnessOwn ==
    /\ rt_pc = "done"
    /\ rt_limit >= 1
    /\ Len(rt_results) = rt_limit
    /\ rt_pass = "own"
    /\ rt_idx <= Len(rt_tickers)

\* the quotes of inferred tickers stopped at the limit with a ticker left
C14_WitnessInferred ==
    /\ rt_pc = "done"
    /\ rt_limit >= 1
    /\ Len(rt_results) = rt_limit
    /\ rt_pass = "inferred"
    /\ rt_idx <= Len(rt_tickers)

\* the run gave an entry: it returned a true output, a valid quote if it is a
\* run of the stock tool, and it is not the fallback web search
Kept(call) ==
    /\ call.phase # "fallback"
    /\ call.out.kind # "raise"
    /\ Truthy(call.out)
    /\ call.tool = "stock_data" => ValidQuote(call.out.text)

KeptRuns == SelectSeq(rt_calls, Kept)

\* the tools the sweep may run for the query
SweepEligible(tool) ==
    /\ tool # "stock_data"
    /\ tool # "web_search"
    /\ MatchesIntent(tool, rt_query)

\* every tool after position i that the sweep may run was run, unless the
\* limit was reached
LaterToolsConsidered(i) ==
    \A j \in (i + 1)..Len(rt_tools) :
        SweepEligible(rt_tools[j]) =>
            \/ RunsOf(rt_tools[j], "sweep") # {}
            \/ Len(rt_results) >= rt_limit

\* C15: no run that raises ends run_tools_for_query; the result has exactly
\* the entries of the runs that returned (none for a run that raised); after
\* a raising run the later tickers of the same pass and the later tools of
\* the sweep are still run unless the limit is reached.
C15_ToolFailuresSwallowed ==
    /\ rt_pc # "raised"
    /\ rt_pc = "done" =>
        /\ Len(rt_results) = Len(KeptRuns)
        /\ \A k \in 1..Len(rt_results) :
            /\ rt_results[k].tool = KeptRuns[k].tool
            /\ rt_results[k].result \in
                    {KeptRuns[k].out.text, SweepResultText(KeptRuns[k].out)}
        /\ \A k \in CallIndices :
            rt_calls[k].out.kind = "raise" =>
                /\ rt_calls[k].phase = "sweep" =>
                    \A i \in 1..Len(rt_tools) :
                        rt_tools[i] = rt_calls[k].tool => LaterToolsConsidered(i)
                /\ rt_calls[k].phase = "fallback" => LaterToolsConsidered(0)
                /\ rt_calls[k].phase = rt_pass =>
                    \A i, j \in 1..Len(rt_tickers) :
                        (rt_tickers[i] = rt_calls[k].input /\ i < j) =>
                            \/ \E k2 \in RunsOf("stock_data", rt_pass) :
                                    rt_calls[k2].input = rt_tickers[j]
                            \/ Len(rt_stock_results) >= rt_limit

\* a run of the sweep raised and a later tool gave an entry
C15_Witness ==
    /\ rt_pc = "done"
    /\ \E k1, k2 \in CallIndices :
        /\ k1 < k2
        /\ rt_calls[k1].phase = "sweep"
        /\ rt_calls[k1].out.kind = "raise"
        /\ Kept(rt_calls[k2])
    /\ rt_results # <<>>

\* a quote run raised, the next ticker gave a quote
C15_WitnessStock ==
    /\ rt_pc = "done"
    /\ \E k1, k2 \in RunsOf("stock_data", "own") :
        /\ k1 < k2
        /\ rt_calls[k1].out.kind = "raise"
        /\ Kept(rt_calls[k2])

\* the fallback web search raised and the sweep gave an entry
C15_WitnessFallback ==
    /\ rt_pc = "done"
    /\ \E k \in RunsOf("web_search", "fallback") : rt_calls[k].out.kind = "raise"
    /\ rt_results # <<>>

\* C16: every entry returned has a result text of at most 500 characters.
C16_ResultAtMost500 ==
    rt_pc = "done" =>
        \A k \in 1..Len(rt_results) : Len(rt_results[k].result) <= 500

\* C19: when the search signal fires, web_search is available and step 1 did
\* not run it, the sweep runs web_search exactly once unless the limit is
\* reached before, and its true output gives a web_search entry; the
\* calculator is run only on the calculation signal, wikipedia and arxiv only
\* on the research signal, each at most once.
C19_SweepWebSearch ==
    rt_pc = "done" =>
        /\ (/\ _has_search_signal(rt_query)
            /\ FindTool(rt_tools, "web_search")
            /\ RunsOf("web_search", "fallback") = {}
            /\ \A k \in 1..Len(rt_results) : rt_results[k].tool # "stock_data"
            /\ Len(rt_results) < rt_limit)
           => /\ Cardinality(RunsOf("web_search", "sweep")) = 1
              /\ \A k \in RunsOf("web_search", "sweep") :
                    (rt_calls[k].out.kind # "raise" /\ Truthy(rt_calls[k].out))
                        => \E r \in 1..Len(rt_results) :
                                rt_results[r].tool = "web_search"
        /\ RunsOf("calculator", "sweep") # {} => _has_calc_signal(rt_query)
        /\ \A tool \in {"wikipedia", "arxiv"} :
            RunsOf(tool, "sweep") # {} => _has_research_signal(rt_query)
        /\ \A tool \in {"calculator", "wikipedia", "arxiv"} :
            Cardinality(RunsOf(tool, "sweep")) <= 1

IsStockRun(call) == call.tool = "stock_data"
IsOwnRun(call) == call.tool = "stock_data" /\ call.phase = "own"
IsInferredRun(call) == call.tool = "stock_data" /\ call.phase = "inferred"

InputsOf(runs) == [k \in 1..Len(runs) |-> runs[k].input]

\* the candidates the second pass works on: those of the fallback search's
\* output, none if the search did not run or raised
InferredCandidates ==
    IF \E k \in RunsOf("web_search", "fallback") : rt_calls[k].out.kind # "raise"
    THEN extract_ticker_candidates(
            rt_calls[CHOOSE k \in RunsOf("web_search", "fallback") : TRUE].out.text)
    ELSE <<>>

\* what C20 says of the order of the quote runs, of the short circuit and of
\* the fallback search
QuoteRunsInOrder ==
    /\ IsPrefix(InputsOf(SelectSeq(rt_calls, IsOwnRun)),
                extract_ticker_candidates(rt_query))
    /\ IsPrefix(InputsOf(SelectSeq(rt_calls, IsInferredRun)), InferredCandidates)
    /\ \A k1, k2 \in CallIndices :
        (/\ k1 # k2
         /\ IsStockRun(rt_calls[k1])
         /\ IsStockRun(rt_calls[k2])
         /\ rt_calls[k1].phase = rt_calls[k2].phase)
            => rt_calls[k1].input # rt_calls[k2].input

QuotesShortCircuit ==
    /\ \A r \in 1..Len(rt_results) :
        rt_results[r].tool = "stock_data" =>
            \E k \in CallIndices :
                /\ IsStockRun(rt_calls[k])
                /\ rt_calls[k].out.kind = "str"
                /\ rt_calls[k].out.text = rt_results[r].result
    /\ (rt_pc = "done" /\ \E k \in CallIndices :
                            IsStockRun(rt_calls[k]) /\ Kept(rt_calls[k]))
        => /\ \A r \in 1..Len(rt_results) : rt_results[r].tool = "stock_data"
           /\ \A k \in CallIndices : rt_calls[k].phase # "sweep"

FallbackOnceAfterNoQuote ==
    /\ Cardinality(RunsOf("web_search", "fallback")) <= 1
    /\ \A k \in RunsOf("web_search", "fallback") :
        /\ \A k2 \in RunsOf("stock_data", "own") :
            k2 < k /\ ~Kept(rt_calls[k2])
        /\ \A k2 \in RunsOf("stock_data", "inferred") : k < k2

\* C20 as amended: when the finance signal fires, each pass of quote runs (the
\* query's own candidates, the candidates of the fallback search's output)
\* takes its candidates in extraction order, at most once each within the
\* pass; only outputs with "$" or, in any letter case, "price=" are kept; a
\* kept quote makes the function return only quote entries without a sweep
\* run; the fallback search runs at most once, and only after the query's
\* own candidates gave no valid quote.
C20_FinanceQuotesPerPass ==
    (rt_pc # "idle" /\ _has_finance_signal(rt_query)) =>
        /\ QuoteRunsInOrder
        /\ QuotesShortCircuit
        /\ FallbackOnceAfterNoQuote
        /\ \A r \in 1..Len(rt_results) :
            rt_results[r].tool = "stock_data" =>
                \/ Contains(rt_results[r].result, <<"$">>)
                \/ Contains(ToLower(rt_results[r].result), PriceField)

\* C20 as stated: the quote tool runs at most once per distinct candidate in
\* the whole call, and only outputs containing "$" or "price=" are kept.
C20_FinanceQuotes ==
    (rt_pc # "idle" /\ _has_finance_signal(rt_query)) =>
        /\ QuoteRunsInOrder
        /\ QuotesShortCircuit
        /\ FallbackOnceAfterNoQuote
        /\ \A k1, k2 \in CallIndices :
            (k1 # k2 /\ IsStockRun(rt_calls[k1]) /\ IsStockRun(rt_calls[k2]))
                => rt_calls[k1].input # rt_calls[k2].input
        /\ \A r \in 1..Len(rt_results) :
            rt_results[r].tool = "stock_data" =>
                \/ Contains(rt_results[r].result, <<"$">>)
                \/ Contains(rt_results[r].result, PriceField)

\* a candidate of the query gave no quote, the fallback search named it
\* again, and its second run gave the quote that is returned
C20_Witness ==
    /\ rt_pc = "done"
    /\ _has_finance_signal(rt_query)
    /\ \E k1 \in RunsOf("stock_data", "own"), k2 \in RunsOf("stock_data", "inferred") :
        /\ rt_calls[k1].input = rt_calls[k2].input
        /\ Kept(rt_calls[k2])
    /\ rt_results # <<>>

\* a quote with the price field in capitals is returned
C20_WitnessPriceField ==
    /\ rt_pc = "done"
    /\ \E r \in 1..Len(rt_results) :
        /\ rt_results[r].tool = "stock_data"
        /\ rt_results[r].result = QuotePriceField

-----------------------------------------------------------------------------
(* Claims about the conversation store.                                    *)

TitlesAndMessages(store) ==
    {[id |-> c.id, title |-> c.title, messages |-> c.messages] : c \in store}

\* C18: after every sequence of create, get, save, list and delete calls the
\* two backends have returned the same results and hold the same set of
\* conversations with the same titles and messages.
C18_BackendsInterchangeable ==
    /\ st_last.json = st_last.db
    /\ TitlesAndMessages(st_json) = TitlesAndMessages(st_db)

-----------------------------------------------------------------------------
(* Claims about the messages of stage 1.                                   *)

\* the indices of the 6 most recent entries of the context
Window ==
    {i \in 1..Len(s1_context) : i > Len(s1_context) - 6}

\* the entries of the context at the indices of S, in their original order
RECURSIVE EntriesIn(_, _)
EntriesIn(S, i) ==
    IF i > Len(s1_context) THEN <<>>
    ELSE (IF i \in S THEN <<s1_context[i]>> ELSE <<>>) \o EntriesIn(S, i + 1)

\* the tags in a text, in the order of their places: a tag is one of the
\* letters q, a, L and p and then a digit, and no other text of the inputs has
\* such a pair
TagPlaces(t) ==
    {k \in 1..(Len(t) - 1) : t[k] \in {"q", "a", "L", "p"} /\ t[k + 1] \in Digit}

RECURSIVE TagsAt(_, _)
TagsAt(t, places) ==
    IF places = {} THEN <<>>
    ELSE LET k == Min(places)
         IN  <<SubSeq(t, k, k + 1)>> \o TagsAt(t, places \ {k})

TagsIn(t) == TagsAt(t, TagPlaces(t))

\* the tags of the entries of a sequence that are user entries or council
\* answers, in their order
RECURSIVE TagsOf(_)
TagsOf(entries) ==
    IF entries = <<>> THEN <<>>
    ELSE LET e == Head(entries)
         IN  (IF e.role = "user" THEN <<e.content>>
              ELSE IF e.role = "assistant" /\ "stage3" \in DOMAIN e
                   THEN <<SubSeq(e.stage3.response, 1, 2)>>
                   ELSE <<>>) \o TagsOf(Tail(entries))

Contributes(i) ==
    \/ s1_context[i].role = "user"
    \/ s1_context[i].role = "assistant" /\ "stage3" \in DOMAIN s1_context[i]

\* the lines of the entries of a sequence, one after the other
RECURSIVE LinesOf(_)
LinesOf(entries) ==
    IF entries = <<>> THEN <<>>
    ELSE ContextLine(Head(entries)) \o LinesOf(Tail(entries))

Stage1Built == s1_pc \in {"built", "sent"}

\* the context turn is the first message, built from the entries of the
\* window in their order: its tags are those of the user entries and council
\* answers of the window, each once and in the order of the context
ContextTurnFromWindow ==
    IF s1_context = <<>>
    THEN \A k \in 1..Len(s1_messages) :
            ~IsPrefixAt(s1_messages[k].content, Strip(ContextHeader), 1)
    ELSE /\ s1_messages[1] =
                SystemMessage(Strip(ContextHeader
                                        \o LinesOf(EntriesIn(Window, 1))))
         /\ TagsIn(s1_messages[1].content) = TagsOf(EntriesIn(Window, 1))

\* an entry older than the window is in no message (every tag in a message
\* is in the context turn and is the tag of an entry of the window), and the
\* messages are those built from the entries of the window alone
OlderEntriesUnused ==
    /\ \A k \in 2..Len(s1_messages) : TagPlaces(s1_messages[k].content) = {}
    /\ LET tags == TagsIn(s1_messages[1].content)
           recent == {TagsOf(<<s1_context[i]>>) : i \in Window}
       IN  \A g \in 1..Len(tags) : <<tags[g]>> \in recent
    /\ s1_messages = BuildMessages(s1_query, EntriesIn(Window, 1),
                                   MemoryCtx(s1_memory), s1_tool_outputs)

\* the user query is the last message and the only user message
QueryIsLast ==
    /\ s1_messages # <<>>
    /\ s1_messages[Len(s1_messages)] = [role |-> "user", content |-> s1_query]
    /\ \A k \in 1..(Len(s1_messages) - 1) : s1_messages[k].role = "system"

\* every configured responder is sent the messages built, and none is sent
\* anything before they are built or when the function raised
SameToEveryResponder ==
    IF s1_pc = "sent"
    THEN \A k \in 1..Len(COUNCIL_MODELS) :
            s1_sent[COUNCIL_MODELS[k]] = s1_messages
    ELSE s1_sent = NotSent

\* C21: for any context passed to stage1_collect_responses, the context system
\* turn is built from at most the 6 most recent entries in their original
\* order, no older entry contributes to any message sent to a responder, the
\* user query is the last message, and every configured responder is sent the
\* same message sequence.
C21_ContextWindow ==
    /\ Cardinality(Window) <= 6
    /\ Stage1Built =>
        /\ ContextTurnFromWindow
        /\ OlderEntriesUnused
        /\ QueryIsLast
    /\ SameToEveryResponder

\* a context of 8 entries whose two oldest are a user entry and a council
\* answer, sent with a memory turn and a tool turn
C21_Witness ==
    /\ s1_pc = "sent"
    /\ Len(s1_context) = 8
    /\ Contributes(1)
    /\ Contributes(2)
    /\ \A i \in Window : Contributes(i)
    /\ \E i \in Window :
            /\ "stage3" \in DOMAIN s1_context[i]
            /\ Len(s1_context[i].stage3.response) > MaxAnswerChars
    /\ Len(s1_messages) = 4

\* a context shorter than the window is used whole
C21_WitnessShort ==
    /\ s1_pc = "sent"
    /\ Len(s1_context) = 3
    /\ \A i \in 1..3 : Contributes(i)
    /\ Len(s1_messages) = 2

-----------------------------------------------------------------------------
(* Claims about the rankings of a transcript.                              *)

\* the positions recorded by walking the stored parsed_ranking of each
\* ranking answer, without parsing its text again
RECURSIVE RecordAllStored(_, _, _, _)
RecordAllStored(mp, stage2, l2m, i) ==
    IF i > Len(stage2) THEN mp
    ELSE RecordAllStored(RecordRanking(mp, stage2[i].parsed_ranking, l2m, 1),
                         stage2, l2m, i + 1)

AggregateOfStored(stage2, l2m) ==
    SortByRank(AggregateEntries(RecordAllStored(<<>>, stage2, l2m, 1)))

StoredIsParsed(stage2) ==
    \A i \in 1..Len(stage2) :
        stage2[i].parsed_ranking = parse_ranking_from_text(stage2[i].ranking)

-----------------------------------------------------------------------------
(* Claims about the callers that update a stored conversation.             *)

Quiescent == \A c \in Callers : up_local[c].pc = "idle"

IsSave(e) == e.step = "save"

IsAppend(e) ==
    e.step = "save" /\ e.op \in {"add_user_message", "add_assistant_message"}

IsTitleUpdate(e) == e.step = "save" /\ e.op = "update_conversation_title"

ArgsOf(events) == [k \in 1..Len(events) |-> events[k].arg]

\* the messages appended by the calls that returned, in the order of their saves
AppendedMessages == ArgsOf(SelectSeq(up_log, IsAppend))

\* the titles of the title updates that returned, in the order of their saves
TitleUpdates == ArgsOf(SelectSeq(up_log, IsTitleUpdate))

\* no step of another call came between the get and the save of a call
Serialized ==
    \A i \in 1..Len(up_log) :
        up_log[i].step = "get" =>
            /\ i < Len(up_log)
            /\ up_log[i + 1].step = "save"
            /\ up_log[i + 1].caller = up_log[i].caller

StoredC1 == Lookup(up_store, "c1")

PlaceIn(messages, m) == CHOOSE k \in 1..Len(messages) : messages[k] = m

\* every appended message is stored, the messages of one caller in the order
\* of its calls, and the title is that of the last title update
NothingLost ==
    /\ \A k \in 1..Len(AppendedMessages) :
            \E j \in 1..Len(StoredC1.messages) :
                StoredC1.messages[j] = AppendedMessages[k]
    /\ \A i, j \in 1..Len(up_log) :
            /\ IsAppend(up_log[i])
            /\ IsAppend(up_log[j])
            /\ up_log[i].caller = up_log[j].caller
            /\ up_log[i].n < up_log[j].n
            => PlaceIn(StoredC1.messages, up_log[i].arg)
                    < PlaceIn(StoredC1.messages, up_log[j].arg)
    /\ TitleUpdates # <<>> => StoredC1.title = TitleUpdates[Len(TitleUpdates)]

\* a call on a conversation that is not stored raises and leaves no trace: the
\* store holds the one conversation it held, every message of it was appended
\* by a call that saved, and its title is the first one or that of a title
\* update that saved
RaisedCallsLeaveNoTrace ==
    /\ \A i \in 1..Len(up_log) :
            (up_log[i].step = "raise") = (up_log[i].id # "c1")
    /\ {c.id : c \in up_store} = {"c1"}
    /\ StoredC1.created_at = 1
    /\ \A j \in 1..Len(StoredC1.messages) :
            \E k \in 1..Len(AppendedMessages) :
                AppendedMessages[k] = StoredC1.messages[j]
    /\ StoredC1.title \in
            {NewTitle} \cup {TitleUpdates[k] : k \in 1..Len(TitleUpdates)}

\* the update of the call that saved last is stored
LastSaveStored ==
    LET saves == SelectSeq(up_log, IsSave)
        last == saves[Len(saves)]
    IN  saves # <<>> =>
            IF IsAppend(last)
            THEN /\ StoredC1.messages # <<>>
                 /\ StoredC1.messages[Len(StoredC1.messages)] = last.arg
            ELSE StoredC1.title = last.arg

\* C23 (as amended): when the calls on a conversation do not overlap, no update
\* is lost: once they have returned, the stored messages are the appended
\* messages in the order of the calls and the title is that of the last title
\* update; whether or not calls overlap, the update of the call that saved last
\* is stored, and a call on a conversation that does not exist raises
\* ValueError and leaves the store unchanged.
C23_SerializedNothingLost ==
    /\ Quiescent /\ Serialized =>
            /\ NothingLost
            /\ StoredC1.messages = AppendedMessages
            /\ TitleUpdates = <<>> => StoredC1.title = NewTitle
    /\ LastSaveStored
    /\ RaisedCallsLeaveNoTrace

\* C23 (as stated): for every interleaving of the calls, the stored
\* conversation afterwards has every appended message, in an order consistent
\* with each caller's order, and the title of the last title update; a call on
\* a conversation that does not exist raises and leaves the store unchanged.
C23_NothingLost ==
    /\ Quiescent => NothingLost
    /\ RaisedCallsLeaveNoTrace

\* three calls that did not overlap: both callers appended a message and one
\* of them then updated the title
C23_Witness ==
    /\ Quiescent
    /\ Serialized
    /\ Len(AppendedMessages) = 2
    /\ \A c \in Callers : \E i \in 1..Len(up_log) :
            IsAppend(up_log[i]) /\ up_log[i].caller = c
    /\ Len(TitleUpdates) = 1
    /\ IsTitleUpdate(up_log[Len(up_log)])

\* a call on the conversation that does not exist raised, after a message was
\* appended to the one that exists
C23_WitnessRaise ==
    /\ Quiescent
    /\ \E i, j \in 1..Len(up_log) :
            /\ i < j
            /\ IsAppend(up_log[i])
            /\ up_log[j].step = "raise"
            /\ up_log[j].id = "c2"

\* two calls overlapped: both got the conversation before either saved
C23_WitnessOverlap ==
    /\ Quiescent
    /\ ~Serialized
    /\ Len(AppendedMessages) = 2
    /\ Len(StoredC1.messages) = 1

====
